---- MODULE Spec2Model ----
(***************************************************************************)
(* Step synchronisation and time-stretched rendering engine of autodoc:    *)
(* StepDetector (app/services/step_detector.py), SmartAligner              *)
(* (app/services/aligner.py) and VideoProcessor                            *)
(* (app/services/video_processor.py); the AI subprocess runner and the     *)
(* stale-task check (app/celery_tasks.py, app/celery.py); the heartbeat   *)
(* manager's threads (app/celery.py); the guide, step and shorts requests  *)
(* and the background processing run (app/api).                            *)
(*                                                                         *)
(* Times are integers in centiseconds (0.01 s): 5.0 s is 500, the 0.2 s    *)
(* buffer is 20, the 0.5 s floor is 50.  Scores, ratios and stretch        *)
(* factors are exact rationals <<n, d>> with d > 0.  Texts are sequences   *)
(* of Unicode code points.                                                 *)
(***************************************************************************)
EXTENDS Integers, Sequences, FiniteSets, TLC

VARIABLES
  voice_segments,   \* align: the caller's list of VoiceSegment
  screen_actions,   \* align: the caller's list of ScreenAction
  align_runs,       \* number of align() calls made on these lists
  result,           \* AlignmentResult of the latest align() call
  prev_result,      \* AlignmentResult of the call before it
  clicks,           \* detect_steps: list of ClickEvent
  speech_segments,  \* detect_steps: list of SpeechSegment
  det_i,            \* detect_steps: number of clicks already processed
  steps,            \* detect_steps: the list of StepCandidate built so far
  max_gap_seconds,  \* filter_clicks_by_speech: its max_gap_seconds argument
  filter_done,      \* whether filter_clicks_by_speech has returned
  filtered,         \* filter_clicks_by_speech: the list it returned
  vp_pc,            \* VideoProcessor: where the running operation stands
  vp_op,            \* the operation called: generate_video_with_zoom or apply_time_stretch
  vp_steps,         \* generate_video_with_zoom: its list of StepSegment
  segment_files,    \* generate_video_with_zoom: segment_files
  rendered,         \* the segment transcoding calls made, in order
  concat_list,      \* the contents of concat.txt
  concat_log,       \* the concatenation calls made, in order
  copy_outcome,     \* _copy_video: how its transcoding call ended
  output_exists,    \* whether a file exists at output_video
  output_touched,   \* whether this call ran a command that writes output_video
  temp_dir,         \* whether the render_<id> directory exists
  vp_result,        \* what the operation returned
  ts_duration,      \* apply_time_stretch: probed duration of its input_video
  ts_target,        \* apply_time_stretch: target_duration
  ts_requested,     \* the ratio the outermost apply_time_stretch was asked for
  ts_depth,         \* apply_time_stretch: recursion depth
  stages,           \* the atempo factors applied so far by the whole-clip stretch
  caller,           \* which function handed its steps to the video processor
  step_numbers,     \* the step_number of each step, in the order the caller read them
  zr_args,          \* ZoomRegion: the arguments given to the constructor
  zr_done,          \* ZoomRegion: whether the object has been constructed
  zoom_region,      \* ZoomRegion: the fields of the constructed object
  ai_pc,            \* run_ai_subprocess: where the call stands
  ai_task_type,     \* run_ai_subprocess: its task_type argument
  script_exists,    \* whether the AI runner script exists
  hb_redis,         \* whether heartbeat_manager.redis is connected
  input_file,       \* whether input_<task_id>.json exists
  output_file,      \* whether output_<task_id>.json exists
  active_job,       \* whether task_id is in heartbeat_manager.active_jobs
  hb_key,           \* whether the task's heartbeat key exists in Redis
  hb_beats,         \* heartbeat loop iterations made during the call
  ai_result,        \* what run_ai_subprocess returned or raised
  gc_now,           \* stale-task check: seconds elapsed since the job was claimed
  owner_alive,      \* whether the worker that owns the job still runs
  last_heartbeat,   \* the time the job's liveness marker was last refreshed
  consumer_pending, \* the owner's "pending" count reported by XINFO CONSUMERS
  msg_owner,        \* who holds the job's pending message
  gc_passes,        \* number of check_stale_tasks passes made
  pass_age,         \* age of the liveness marker at the latest pass
  reclaim_age,      \* age of the liveness marker at the pass that reclaimed the job
  gc_stats,         \* what the latest check_stale_tasks pass returned or raised
  guide_status,     \* Guide.status of the guide
  error_message,    \* Guide.error_message of the guide
  guide_steps,      \* the guide's GuideStep rows, by id
  bg_tasks,         \* the background tasks scheduled and not yet run
  run,              \* what the latest process_guide_background run did
  text_changed,     \* ids of the steps whose edited_text changed since their audio was made
  requests,         \* number of API requests handled
  http,             \* outcome of the latest API request
  ctx_text,         \* _analyze_action_context: its text argument
  ctx_type,         \* _analyze_action_context: its action_type argument
  ctx_score,        \* _analyze_action_context: the score it returned
  ctx_done,         \* whether _analyze_action_context has returned
  hm_redis,         \* HeartbeatManager.redis: whether a client is set
  active_jobs,      \* HeartbeatManager.active_jobs: its job ids, in insertion order
  heartbeat_keys,   \* Redis: the state of each job's heartbeat key
  unregistered,     \* the jobs whose unregister_job has returned, not registered since
  worker_pc,        \* worker thread: where its register_job or unregister_job stands
  worker_job,       \* worker thread: the job_id of the running call
  loop_pc,          \* heartbeat thread: where _heartbeat_loop stands
  loop_jobs,        \* heartbeat thread: the rest of list(self.active_jobs.keys())
  loop_job,         \* heartbeat thread: the job_id of the running _update_heartbeat
  hm_calls,         \* number of register_job and unregister_job calls made
  hm_loops,         \* number of heartbeat loop rounds made
  sh_status,        \* generate_shorts: Guide.status of its guide
  sh_error,         \* generate_shorts: Guide.error_message of its guide
  sh_screens,       \* generate_shorts: whether each step has a screenshot_path
  sh_pc,            \* generate_shorts: where the request stands
  sh_result,        \* generate_shorts: how the generator and the upload ended
  sh_http           \* generate_shorts: what the request returned or raised

alignVars == <<voice_segments, screen_actions, align_runs, result, prev_result>>
detectVars ==
  <<clicks, speech_segments, det_i, steps, max_gap_seconds, filter_done, filtered>>
videoVars ==
  <<vp_pc, vp_op, vp_steps, segment_files, rendered, concat_list, concat_log, copy_outcome,
    output_exists, output_touched, temp_dir, vp_result,
    ts_duration, ts_target, ts_requested, ts_depth, stages, caller, step_numbers>>
zoomVars == <<zr_args, zr_done, zoom_region>>
aiVars ==
  <<ai_pc, ai_task_type, script_exists, hb_redis, input_file, output_file,
    active_job, hb_key, hb_beats, ai_result>>
gcVars ==
  <<gc_now, owner_alive, last_heartbeat, consumer_pending, msg_owner, gc_passes,
    pass_age, reclaim_age, gc_stats>>
guideVars ==
  <<guide_status, error_message, guide_steps, bg_tasks, run, text_changed, requests,
    http>>
contextVars == <<ctx_text, ctx_type, ctx_score, ctx_done>>
heartbeatVars ==
  <<hm_redis, active_jobs, heartbeat_keys, unregistered, worker_pc, worker_job,
    loop_pc, loop_jobs, loop_job, hm_calls, hm_loops>>
shortsVars == <<sh_status, sh_error, sh_screens, sh_pc, sh_result, sh_http>>
miscVars == <<contextVars, heartbeatVars, shortsVars>>
serviceVars == <<zoomVars, aiVars, gcVars, guideVars, miscVars>>



vars == <<alignVars, detectVars, videoVars, serviceVars>>

\* Python None
None == [is_none |-> TRUE]

\* ------------------------------------------------------------------------
\* Exact rationals
\* ------------------------------------------------------------------------
RECURSIVE GCD(_, _)
GCD(a, b) == IF b = 0 THEN a ELSE GCD(b, a % b)

Abs(x) == IF x < 0 THEN -x ELSE x

Rat(n, d) ==
  LET g == GCD(Abs(n), Abs(d))
      s == IF d < 0 THEN -1 ELSE 1
  IN  IF n = 0 THEN <<0, 1>> ELSE <<s * (n \div g), s * (d \div g)>>

\* common factors are divided out before multiplying, to keep the
\* intermediate products small
RMul(a, b) ==
  LET g == GCD(Abs(a[1]), Abs(b[2]))
      h == GCD(Abs(b[1]), Abs(a[2]))
  IN  Rat((a[1] \div g) * (b[1] \div h), (a[2] \div h) * (b[2] \div g))
RDiv(a, b) == RMul(a, <<b[2], b[1]>>)
RAdd(a, b) ==
  LET g == GCD(Abs(a[2]), Abs(b[2]))
  IN  Rat(a[1] * (b[2] \div g) + b[1] * (a[2] \div g), (a[2] \div g) * b[2])
RSub(a, b) == RAdd(a, <<-b[1], b[2]>>)
RLt(a, b) ==
  LET g == GCD(Abs(a[2]), Abs(b[2]))
  IN  a[1] * (b[2] \div g) < b[1] * (a[2] \div g)
RLe(a, b) == ~RLt(b, a)
REq(a, b) == ~RLt(a, b) /\ ~RLt(b, a)
RMax(a, b) == IF RLt(a, b) THEN b ELSE a
RMin(a, b) == IF RLt(b, a) THEN b ELSE a
RZero == <<0, 1>>
ROne == <<1, 1>>

Max(a, b) == IF a < b THEN b ELSE a
Min(a, b) == IF a < b THEN a ELSE b

RECURSIVE SumSeq(_)
SumSeq(s) == IF s = <<>> THEN 0 ELSE Head(s) + SumSeq(Tail(s))

RECURSIVE RSumSeq(_)
RSumSeq(s) == IF s = <<>> THEN RZero ELSE RAdd(Head(s), RSumSeq(Tail(s)))

RECURSIVE RProdSeq(_)
RProdSeq(s) == IF s = <<>> THEN ROne ELSE RMul(Head(s), RProdSeq(Tail(s)))

\* All sequences over S of length 0..n
BoundedSeq(S, n) == UNION {[1..k -> S] : k \in 0..n}

\* ------------------------------------------------------------------------
\* Text primitives used by the aligner: str.lower, re.search, re.findall,
\* str.split and difflib.SequenceMatcher.ratio
\* ------------------------------------------------------------------------
\* str.lower on Latin A-Z and Cyrillic capitals
LowerChar(c) ==
  IF (c >= 65 /\ c <= 90) \/ (c >= 1040 /\ c <= 1071) THEN c + 32
  ELSE IF c = 1025 THEN 1105
  ELSE c

Lower(text) == [i \in 1..Len(text) |-> LowerChar(text[i])]

\* pattern occurs in text at position i (1-based); the patterns are literal
MatchAt(pattern, text, i) ==
  /\ i + Len(pattern) - 1 <= Len(text)
  /\ \A k \in 1..Len(pattern) : text[i + k - 1] = pattern[k]

\* re.search(pattern, text) is not None
Search(pattern, text) == \E i \in 1..Len(text) : MatchAt(pattern, text, i)

\* len(re.findall(pattern, text)): leftmost non-overlapping occurrences
RECURSIVE FindAllFrom(_, _, _)
FindAllFrom(pattern, text, i) ==
  IF i > Len(text) THEN 0
  ELSE IF MatchAt(pattern, text, i)
       THEN 1 + FindAllFrom(pattern, text, i + Len(pattern))
       ELSE FindAllFrom(pattern, text, i + 1)

FindAllCount(pattern, text) == FindAllFrom(pattern, text, 1)

IsSpace(c) == c \in {32, 9, 10, 13}

\* len(text.split()): number of maximal runs of non-whitespace
WordCount(text) ==
  Cardinality({i \in 1..Len(text) :
                 /\ ~IsSpace(text[i])
                 /\ (i = 1 \/ IsSpace(text[i - 1]))})

\* length of the common prefix of a[i..ahi-1] and b[j..bhi-1]
RECURSIVE CommonLen(_, _, _, _, _, _)
CommonLen(a, b, i, j, ahi, bhi) ==
  IF i < ahi /\ j < bhi /\ a[i] = b[j]
  THEN 1 + CommonLen(a, b, i + 1, j + 1, ahi, bhi)
  ELSE 0

\* SequenceMatcher.find_longest_match without junk: the longest block, the
\* earliest in a, and of those the earliest in b; <<i, j, k>>
FindLongestMatch(a, b, alo, ahi, blo, bhi) ==
  LET P == {<<i, j, CommonLen(a, b, i, j, ahi, bhi)>> :
              i \in alo..(ahi - 1), j \in blo..(bhi - 1)}
  IN  IF P = {} THEN <<alo, blo, 0>>
      ELSE CHOOSE p \in P :
             \A q \in P :
               \/ q[3] < p[3]
               \/ (q[3] = p[3] /\ (p[1] < q[1] \/ (p[1] = q[1] /\ p[2] <= q[2])))

\* sum of the sizes of SequenceMatcher.get_matching_blocks: the longest
\* match, then recursively the pieces to its left and to its right
RECURSIVE MatchingSize(_, _, _, _, _, _)
MatchingSize(a, b, alo, ahi, blo, bhi) ==
  CHOOSE size \in
    {IF m[3] = 0 THEN 0
     ELSE m[3]
          + MatchingSize(a, b, alo, m[1], blo, m[2])
          + MatchingSize(a, b, m[1] + m[3], ahi, m[2] + m[3], bhi) :
       m \in {FindLongestMatch(a, b, alo, ahi, blo, bhi)}} : TRUE

\* SequenceMatcher(None, a, b).ratio()
SequenceMatcherRatio(a, b) ==
  IF Len(a) + Len(b) = 0 THEN ROne
  ELSE Rat(2 * MatchingSize(a, b, 1, Len(a) + 1, 1, Len(b) + 1), Len(a) + Len(b))

\* ------------------------------------------------------------------------
\* SmartAligner (app/services/aligner.py)
\* ------------------------------------------------------------------------
ActionType ==
  {"click", "double_click", "right_click", "scroll", "type", "drag", "hover", "key_press"}

\* SmartAligner.PAUSE_PATTERNS
PAUSE_PATTERNS ==
  <<
    <<1101, 1101, 1101>>,  \* eee
    <<1084, 1084, 1084>>,  \* mmm
    <<1085, 1091>>,  \* nu
    <<1074, 1086, 1090>>,  \* vot
    <<1079, 1085, 1072, 1095, 1080, 1090>>,  \* znachit
    <<1087, 1086, 1085, 1080, 1084, 1072, 1077, 1096, 1100>>,  \* ponimaesh'
    <<1082, 1072, 1082, 32, 1073, 1099>>,  \* kak by
    <<1074, 32, 1086, 1073, 1097, 1077, 1084>>,  \* v obschem
    <<1076, 1086, 1087, 1091, 1089, 1090, 1080, 1084>>  \* dopustim
  >>
Patterns_click ==
  <<
    <<1085, 1072, 1078, 1084, 1080>>,  \* nazhmi
    <<1082, 1083, 1080, 1082, 1085, 1080>>,  \* klikni
    <<1097, 1077, 1083, 1082, 1085, 1080>>,  \* schelkni
    <<1090, 1082, 1085, 1080>>,  \* tkni
    <<1085, 1072, 1078, 1072, 1090, 1100>>,  \* nazhat'
    <<1082, 1083, 1080, 1082, 1085, 1091, 1090, 1100>>,  \* kliknut'
    <<1074, 1099, 1073, 1077, 1088, 1080>>,  \* vyberi
    <<1074, 1099, 1073, 1088, 1072, 1090, 1100>>,  \* vybrat'
    <<1086, 1090, 1082, 1088, 1086, 1081>>,  \* otkroj
    <<1086, 1090, 1082, 1088, 1099, 1090, 1100>>,  \* otkryt'
    <<1085, 1072, 1078, 1084, 1080, 1090, 1077>>,  \* nazhmite
    <<1082, 1083, 1080, 1082, 1085, 1080, 1090, 1077>>,  \* kliknite
    <<99, 108, 105, 99, 107>>,  \* click
    <<112, 114, 101, 115, 115>>,  \* press
    <<116, 97, 112>>  \* tap
  >>
Patterns_scroll ==
  <<
    <<1087, 1088, 1086, 1083, 1080, 1089, 1090, 1072, 1081>>,  \* prolistaj
    <<1087, 1088, 1086, 1082, 1088, 1091, 1090, 1080>>,  \* prokruti
    <<1089, 1082, 1088, 1086, 1083, 1083>>,  \* skroll
    <<1086, 1087, 1091, 1089, 1090, 1080>>,  \* opusti
    <<1087, 1086, 1076, 1085, 1080, 1084, 1080>>,  \* podnimi
    <<1083, 1080, 1089, 1090, 1072, 1081>>,  \* listaj
    <<1076, 1074, 1080, 1085, 1100>>,  \* dvin'
    <<115, 99, 114, 111, 108, 108>>,  \* scroll
    <<115, 119, 105, 112, 101>>  \* swipe
  >>
Patterns_type ==
  <<
    <<1074, 1074, 1077, 1076, 1080>>,  \* vvedi
    <<1085, 1072, 1087, 1077, 1095, 1072, 1090, 1072, 1081>>,  \* napechataj
    <<1085, 1072, 1087, 1080, 1096, 1080>>,  \* napishi
    <<1074, 1074, 1077, 1089, 1090, 1080>>,  \* vvesti
    <<1085, 1072, 1087, 1077, 1095, 1072, 1090, 1072, 1090, 1100>>,  \* napechatat'
    <<1074, 1074, 1086, 1076>>,  \* vvod
    <<116, 121, 112, 101>>,  \* type
    <<101, 110, 116, 101, 114>>,  \* enter
    <<105, 110, 112, 117, 116>>  \* input
  >>
Patterns_hover ==
  <<
    <<1085, 1072, 1074, 1077, 1076, 1080>>,  \* navedi
    <<1085, 1072, 1074, 1077, 1076, 1080, 32, 1082, 1091, 1088, 1089, 1086, 1088>>,  \* navedi kursor
    <<1087, 1086, 1076, 1074, 1077, 1076, 1080>>,  \* podvedi
    <<1085, 1072, 1074, 1077, 1076, 1080, 1090, 1077>>,  \* navedite
    <<104, 111, 118, 101, 114>>,  \* hover
    <<109, 111, 118, 101>>  \* move
  >>
Phrases_click ==
  <<
    <<1085, 1072, 1078, 1084, 1080, 32, 1085, 1072, 32, 1082, 1085, 1086, 1087, 1082, 1091>>,  \* nazhmi na knopku
    <<1085, 1072, 1078, 1084, 1080, 32, 1079, 1076, 1077, 1089, 1100>>,  \* nazhmi zdes'
    <<1082, 1083, 1080, 1082, 1085, 1080, 32, 1087, 1086, 32, 1089, 1089, 1099, 1083, 1082, 1077>>  \* klikni po ssylke
  >>
Phrases_scroll ==
  <<
    <<1087, 1088, 1086, 1082, 1088, 1091, 1090, 1080, 32, 1074, 1085, 1080, 1079>>,  \* prokruti vniz
    <<1087, 1088, 1086, 1083, 1080, 1089, 1090, 1072, 1081, 32, 1089, 1090, 1088, 1072, 1085, 1080, 1094, 1091>>  \* prolistaj stranicu
  >>
Phrases_type ==
  <<
    <<1074, 1074, 1077, 1076, 1080, 32, 1090, 1077, 1082, 1089, 1090>>,  \* vvedi tekst
    <<1085, 1072, 1087, 1080, 1096, 1080, 32, 1089, 1086, 1086, 1073, 1097, 1077, 1085, 1080, 1077>>  \* napishi soobschenie
  >>

\* SmartAligner.ACTION_PATTERNS: the action types that have keyword patterns
ACTION_PATTERNS ==
  [t \in {"click", "scroll", "type", "hover"} |->
     CASE t = "click" -> Patterns_click
       [] t = "scroll" -> Patterns_scroll
       [] t = "type" -> Patterns_type
       [] t = "hover" -> Patterns_hover]

\* typical_phrases of _analyze_action_context
typical_phrases ==
  [t \in {"click", "scroll", "type"} |->
     CASE t = "click" -> Phrases_click
       [] t = "scroll" -> Phrases_scroll
       [] t = "type" -> Phrases_type]

\* SmartAligner.__init__ defaults
max_gap_threshold == 500
pause_word_threshold == <<1, 2>>
\* the buffer kept by _calculate_silence_removal and the minimum duration of
\* _create_aligned_steps
SILENCE_BUFFER == 20
MIN_STEP_DURATION == 50
\* VoiceSegment.confidence default
DEFAULT_CONFIDENCE == <<9, 10>>

\* Nazhmite knopku Sohranit'
TextSave == <<1053, 1072, 1078, 1084, 1080, 1090, 1077, 32, 1082, 1085, 1086, 1087, 1082, 1091, 32, 1057, 1086, 1093, 1088, 1072, 1085, 1080, 1090, 1100>>
\* nu vot
TextPause == <<1085, 1091, 32, 1074, 1086, 1090>>
\* ok
TextOk == <<111, 107>>
\* menyu na ekrane
TextMenu == <<1084, 1077, 1085, 1102, 32, 1085, 1072, 32, 1101, 1082, 1088, 1072, 1085, 1077>>

Texts == {TextSave, TextPause, TextOk, TextMenu}

\* navedi kursor
TextHover == <<1085, 1072, 1074, 1077, 1076, 1080, 32, 1082, 1091, 1088, 1089, 1086, 1088>>
\* click here
TextClickHere == <<99, 108, 105, 99, 107, 32, 104, 101, 114, 101>>
\* listaj stranicu
TextPage == <<1083, 1080, 1089, 1090, 1072, 1081, 32, 1089, 1090, 1088, 1072, 1085, 1080, 1094, 1091>>
TextEmpty == <<>>

\* the texts _analyze_action_context is called on
ContextTexts == Texts \cup {TextHover, TextClickHere, TextPage, TextEmpty}

\* variant of _analyze_action_context in which a type without keyword
\* patterns gets the score of a type without typical phrases
AnalyzeContextOneDefault(text, action_type) ==
  LET text_lower == Lower(text)
  IN  IF action_type \notin DOMAIN ACTION_PATTERNS THEN <<3, 10>>
      ELSE IF \E k \in 1..Len(ACTION_PATTERNS[action_type]) :
                Search(ACTION_PATTERNS[action_type][k], text_lower)
           THEN ROne
      ELSE IF action_type \in DOMAIN typical_phrases
           THEN LET ph == typical_phrases[action_type]
                    sims == [k \in 1..Len(ph) |-> SequenceMatcherRatio(text_lower, ph[k])]
                    MaxSim[k \in 0..Len(ph)] ==
                      IF k = 0 THEN RZero ELSE RMax(MaxSim[k - 1], sims[k])
                IN  MaxSim[Len(ph)]
      ELSE <<3, 10>>

\* _analyze_action_context(text, action_type)
_analyze_action_context(text, action_type) ==
  LET text_lower == Lower(text)
  IN  IF action_type \notin DOMAIN ACTION_PATTERNS THEN <<1, 2>>
      ELSE IF \E k \in 1..Len(ACTION_PATTERNS[action_type]) :
                Search(ACTION_PATTERNS[action_type][k], text_lower)
           THEN ROne
      ELSE IF action_type \in DOMAIN typical_phrases
           THEN LET ph == typical_phrases[action_type]
                    sims == [k \in 1..Len(ph) |-> SequenceMatcherRatio(text_lower, ph[k])]
                    MaxSim[k \in 0..Len(ph)] ==
                      IF k = 0 THEN RZero ELSE RMax(MaxSim[k - 1], sims[k])
                IN  MaxSim[Len(ph)]
      ELSE <<3, 10>>

\* the context scores of the modelled texts, computed once
ContextTable == [t \in Texts, a \in ActionType |-> _analyze_action_context(t, a)]

\* pause_ratio > pause_word_threshold in _clean_pauses
IsHesitation(text) ==
  LET lowered == Lower(text)
      pause_count == SumSeq([k \in 1..Len(PAUSE_PATTERNS) |->
                               FindAllCount(PAUSE_PATTERNS[k], lowered)])
      words == WordCount(lowered)
      pause_ratio == IF words > 0 THEN Rat(pause_count, words) ELSE RZero
  IN  RLt(pause_word_threshold, pause_ratio)

HesitationTable == [t \in Texts |-> IsHesitation(t)]

\* one segment of _clean_pauses: shortened by 20% and confidence * 0.8 when
\* it is mostly hesitation words, the same segment otherwise
CleanSegment(segment) ==
  IF HesitationTable[segment.text]
  THEN [start |-> segment.start,
        end |-> segment.start + ((segment.end - segment.start) * 8) \div 10,
        text |-> segment.text,
        confidence |-> RMul(segment.confidence, <<8, 10>>)]
  ELSE segment

_clean_pauses(segments) == [i \in 1..Len(segments) |-> CleanSegment(segments[i])]

\* gap between a voice segment and an action time
Gap(voice, action_time) ==
  IF action_time >= voice.end THEN action_time - voice.end
  ELSE Abs(voice.start - action_time)

\* combined_score of _match_actions_to_speech
CombinedScore(voice, action) ==
  LET gap == Gap(voice, action.timestamp)
      context_score == ContextTable[voice.text, action.action_type]
      gap_penalty == RMax(RZero, Rat(gap, max_gap_threshold))
  IN  RMul(context_score, RSub(ROne, RMul(gap_penalty, <<3, 10>>)))

\* the inner loop of _match_actions_to_speech over voices i..n: best is
\* [match |-> position or 0, score, gap]
RECURSIVE BestMatch(_, _, _, _, _)
BestMatch(voices, action, used_voices, i, best) ==
  IF i > Len(voices) THEN best
  ELSE IF i \in used_voices
       THEN BestMatch(voices, action, used_voices, i + 1, best)
  ELSE IF Gap(voices[i], action.timestamp) > max_gap_threshold
       THEN BestMatch(voices, action, used_voices, i + 1, best)
  ELSE IF RLt(best.score, CombinedScore(voices[i], action))
       THEN BestMatch(voices, action, used_voices, i + 1,
                      [match |-> i,
                       score |-> CombinedScore(voices[i], action),
                       gap |-> Gap(voices[i], action.timestamp)])
  ELSE BestMatch(voices, action, used_voices, i + 1, best)

\* list.index(best_match): the first position holding an equal segment
IndexOf(voices, v) == CHOOSE j \in 1..Len(voices) :
                        voices[j] = v /\ \A k \in 1..(j - 1) : voices[k] # v

\* variant of _calculate_silence_removal that removes the whole gap
SilenceRemovalWholeGap(voice, action, gap) ==
  IF action.timestamp >= voice.end THEN Max(0, gap) ELSE 0

\* _calculate_silence_removal(voice, action, gap)
_calculate_silence_removal(voice, action, gap) ==
  IF action.timestamp >= voice.end THEN Max(0, gap - SILENCE_BUFFER) ELSE 0

\* _match_actions_to_speech from action a on; st is [matched, used_voices,
\* used_actions]. voice_pos and action_pos record which list elements the
\* pair was built from.
RECURSIVE MatchFrom(_, _, _, _)
MatchFrom(voices, actions, a, st) ==
  IF a > Len(actions) THEN st
  ELSE IF actions[a].timestamp \in st.used_actions
       THEN MatchFrom(voices, actions, a + 1, st)
  ELSE LET best == BestMatch(voices, actions[a], st.used_voices, 1,
                             [match |-> 0, score |-> RZero, gap |-> -1])
       IN  IF best.match = 0 THEN MatchFrom(voices, actions, a + 1, st)
           ELSE LET best_match == voices[best.match]
                    match_idx == IndexOf(voices, best_match)
                    pair == [voice |-> [start |-> best_match.start,
                                        end |-> best_match.end,
                                        text |-> best_match.text,
                                        confidence |-> best.score],
                             action |-> actions[a],
                             silence_removed |->
                               _calculate_silence_removal(best_match, actions[a], best.gap),
                             voice_pos |-> best.match,
                             action_pos |-> a]
                IN  MatchFrom(voices, actions, a + 1,
                              [matched |-> Append(st.matched, pair),
                               used_voices |-> st.used_voices \cup {match_idx},
                               used_actions |-> st.used_actions \cup {actions[a].timestamp}])

_match_actions_to_speech(voices, actions) ==
  MatchFrom(voices, actions, 1,
            [matched |-> <<>>, used_voices |-> {}, used_actions |-> {}]).matched

\* variant of AlignedEnd without the minimum-duration floor
AlignedEndNoFloor(voice, silence_removed) == voice.end - silence_removed

\* the step timing of _create_aligned_steps: new_end, floored to
\* new_start + 0.5 s when it is not after new_start
AlignedEnd(voice, silence_removed) ==
  LET new_start == voice.start
      new_end == voice.end - silence_removed
  IN  IF new_end <= new_start THEN new_start + MIN_STEP_DURATION ELSE new_end

\* _create_aligned_steps(matched_pairs, all_voices)
_create_aligned_steps(matched_pairs) ==
  [i \in 1..Len(matched_pairs) |->
     LET voice == matched_pairs[i].voice
         silence_removed == matched_pairs[i].silence_removed
     IN  [step_number |-> i,
          original_start |-> voice.start,
          original_end |-> voice.end,
          aligned_start |-> voice.start,
          aligned_end |-> AlignedEnd(voice, silence_removed),
          text |-> voice.text,
          action |-> matched_pairs[i].action,
          silence_removed |-> silence_removed,
          confidence |-> voice.confidence]]

\* AlignedStep.duration and AlignedStep.original_duration
StepDuration(s) == s.aligned_end - s.aligned_start
StepOriginalDuration(s) == s.original_end - s.original_start

\* variant of RemovalScore without the max(0, ...) of the upper branch
RemovalScoreUnclamped(removal_ratio) ==
  IF RLt(removal_ratio, <<1, 10>>) THEN RDiv(removal_ratio, <<1, 10>>)
  ELSE IF RLt(<<3, 10>>, removal_ratio)
       THEN RSub(ROne, RDiv(RSub(removal_ratio, <<3, 10>>), <<7, 10>>))
  ELSE ROne

\* removal_score of _calculate_quality
RemovalScore(removal_ratio) ==
  IF RLt(removal_ratio, <<1, 10>>) THEN RDiv(removal_ratio, <<1, 10>>)
  ELSE IF RLt(<<3, 10>>, removal_ratio)
       THEN RMax(RZero,
                 RSub(ROne, RDiv(RSub(removal_ratio, <<3, 10>>), <<7, 10>>)))
  ELSE ROne

\* the floor max(0.1, total_duration) of the removal ratio, in centiseconds
MIN_TOTAL_DURATION == 10

\* _calculate_quality(aligned_steps, original_voices)
_calculate_quality(aligned_steps, original_voices) ==
  IF aligned_steps = <<>> \/ original_voices = <<>> THEN RZero
  ELSE
    LET matched_count == Len(aligned_steps)
        total_count == Len(original_voices)
        coverage_score == RMin(ROne, Rat(matched_count, Max(1, total_count)))
        avg_confidence ==
          RDiv(RSumSeq([i \in 1..Len(aligned_steps) |-> aligned_steps[i].confidence]),
               <<Max(1, Len(aligned_steps)), 1>>)
        total_removed ==
          SumSeq([i \in 1..Len(aligned_steps) |-> aligned_steps[i].silence_removed])
        total_duration ==
          SumSeq([i \in 1..Len(aligned_steps) |-> StepOriginalDuration(aligned_steps[i])])
        removal_ratio == Rat(total_removed, Max(MIN_TOTAL_DURATION, total_duration))
        removal_score == RemovalScore(removal_ratio)
        quality ==
          RAdd(RAdd(RMul(coverage_score, <<3, 10>>), RMul(avg_confidence, <<4, 10>>)),
               RMul(removal_score, <<3, 10>>))
    IN  RMin(ROne, quality)

\* _empty_result()
_empty_result ==
  [steps |-> <<>>,
   total_original_duration |-> 0,
   total_aligned_duration |-> 0,
   total_silence_removed |-> 0,
   compression_ratio |-> ROne,
   alignment_quality |-> RZero,
   matched_positions |-> <<>>]

\* the AlignmentResult that align builds from the matched pairs and the
\* aligned steps; matched_positions lists, per returned step, the positions
\* <<voice, action>> in the input lists of the objects the step was built from
AlignmentResult(matched_pairs, aligned_steps, voices) ==
  LET total_original ==
        SumSeq([i \in 1..Len(aligned_steps) |-> StepOriginalDuration(aligned_steps[i])])
      total_aligned ==
        SumSeq([i \in 1..Len(aligned_steps) |-> StepDuration(aligned_steps[i])])
      total_silence == total_original - total_aligned
  IN  [steps |-> aligned_steps,
       total_original_duration |-> total_original,
       total_aligned_duration |-> total_aligned,
       total_silence_removed |-> Max(0, total_silence),
       compression_ratio |->
         IF total_aligned > 0 THEN Rat(total_original, total_aligned) ELSE ROne,
       alignment_quality |-> _calculate_quality(aligned_steps, voices),
       matched_positions |->
         [i \in 1..Len(matched_pairs) |->
            <<matched_pairs[i].voice_pos, matched_pairs[i].action_pos>>]]

\* SmartAligner.align(voice_segments, screen_actions): _clean_pauses,
\* _match_actions_to_speech, _create_aligned_steps, then the totals
align(voices, actions) ==
  IF voices = <<>> \/ actions = <<>> THEN _empty_result
  ELSE
    CHOOSE r \in
      UNION {{AlignmentResult(matched_pairs, aligned_steps, voices) :
                aligned_steps \in {_create_aligned_steps(matched_pairs)}} :
             matched_pairs \in
               {_match_actions_to_speech(cleaned_segments, actions) :
                  cleaned_segments \in {_clean_pauses(voices)}}} : TRUE

\* variant of VoicesAfterAlign in which _clean_pauses shortens the caller's
\* segments in place
VoicesCleanedInPlace(voices) == _clean_pauses(voices)

\* the caller's voice list after align() has run on it: align builds new
\* VoiceSegment objects (cleaned, aligned_voice) and assigns to no field of
\* an input segment
VoicesAfterAlign(voices) == voices

\* ---- the inputs of align ------------------------------------------------
MaxVoices == 2
MaxActions == 3

Voice(s, e, t) == [start |-> s, end |-> e, text |-> t, confidence |-> DEFAULT_CONFIDENCE]

VoiceDomain ==
  { Voice(1000, 1200, TextSave),
    Voice(1150, 1150, TextSave),
    Voice(1300, 1400, TextPause),
    Voice(1000, 1200, TextOk),
    Voice(1223, 1228, TextOk),
    Voice(1100, 1500, TextMenu) }

ActionDomain ==
  { [action_type |-> "click", timestamp |-> 1250],
    [action_type |-> "click", timestamp |-> 1500],
    [action_type |-> "click", timestamp |-> 1150],
    [action_type |-> "drag", timestamp |-> 1250] }

NoResult == [steps |-> <<>>, none |-> TRUE]

\* ------------------------------------------------------------------------
\* StepDetector (app/services/step_detector.py)
\* ------------------------------------------------------------------------
MAX_SPEECH_SECONDS == 500

\* the loop of _find_nearest_speech_before over segments i..n; best is
\* [candidate |-> position or 0, distance]; distance -1 stands for infinity
RECURSIVE NearestFrom(_, _, _, _)
NearestFrom(click_timestamp, segments, i, best) ==
  IF i > Len(segments) THEN best
  ELSE IF segments[i].end > click_timestamp
       THEN NearestFrom(click_timestamp, segments, i + 1, best)
  ELSE IF segments[i].end < click_timestamp - MAX_SPEECH_SECONDS
       THEN NearestFrom(click_timestamp, segments, i + 1, best)
  ELSE LET distance == click_timestamp - segments[i].end
       IN  IF best.candidate = 0 \/ distance < best.distance
           THEN NearestFrom(click_timestamp, segments, i + 1,
                            [candidate |-> i, distance |-> distance])
           ELSE NearestFrom(click_timestamp, segments, i + 1, best)

\* variant of _find_nearest_speech_before without the lookback limit
RECURSIVE NearestNoLookback(_, _, _, _)
NearestNoLookback(click_timestamp, segments, i, best) ==
  IF i > Len(segments) THEN best
  ELSE IF segments[i].end > click_timestamp
       THEN NearestNoLookback(click_timestamp, segments, i + 1, best)
  ELSE LET distance == click_timestamp - segments[i].end
       IN  IF best.candidate = 0 \/ distance < best.distance
           THEN NearestNoLookback(click_timestamp, segments, i + 1,
                                  [candidate |-> i, distance |-> distance])
           ELSE NearestNoLookback(click_timestamp, segments, i + 1, best)

FindNearestNoLookback(click_timestamp, segments) ==
  LET best == NearestNoLookback(click_timestamp, segments, 1,
                                [candidate |-> 0, distance |-> -1])
  IN  IF best.candidate = 0 THEN None ELSE segments[best.candidate]

\* variant of _find_nearest_speech_before that keeps the first qualifying
\* segment instead of the nearest one
FindFirstQualifying(click_timestamp, segments) ==
  LET Q == {j \in 1..Len(segments) :
              /\ segments[j].end <= click_timestamp
              /\ segments[j].end >= click_timestamp - MAX_SPEECH_SECONDS}
  IN  IF Q = {} THEN None
      ELSE segments[CHOOSE j \in Q : \A k \in Q : j <= k]

\* _find_nearest_speech_before(click_timestamp, speech_segments)
_find_nearest_speech_before(click_timestamp, segments) ==
  LET best == NearestFrom(click_timestamp, segments, 1,
                          [candidate |-> 0, distance |-> -1])
  IN  IF best.candidate = 0 THEN None ELSE segments[best.candidate]

\* _extract_raw_text(speech); the empty string is the empty sequence
_extract_raw_text(speech) == IF speech = None THEN <<>> ELSE speech.text

\* the StepCandidate detect_steps builds for one click
StepCandidate(click, segments) ==
  LET nearest_speech == _find_nearest_speech_before(click.timestamp, segments)
  IN  [click |-> click,
       speech |-> nearest_speech,
       raw_speech_text |-> _extract_raw_text(nearest_speech)]

\* the default of max_gap_seconds
DEFAULT_MAX_GAP_SECONDS == 300

\* variant of KeepsClick that asks only for a nearest speech
KeepsClickWithAnySpeech(click, segments, max_gap) ==
  _find_nearest_speech_before(click.timestamp, segments) # None

\* the test of filter_clicks_by_speech on one click: a nearest speech exists
\* and gap <= max_gap_seconds
KeepsClick(click, segments, max_gap) ==
  LET nearest == _find_nearest_speech_before(click.timestamp, segments)
  IN  IF nearest # None
      THEN click.timestamp - nearest.end <= max_gap
      ELSE FALSE

\* filter_clicks_by_speech(clicks, speech_segments, max_gap_seconds)
filter_clicks_by_speech(cs, segments, max_gap) ==
  SelectSeq(cs, LAMBDA click : KeepsClick(click, segments, max_gap))

\* ---- the inputs of detect_steps -----------------------------------------
MaxClicks == 2
MaxSpeech == 2

ClickDomain == {[timestamp |-> t] : t \in {2000, 2600}}

SpeechDomain ==
  {[start |-> e - 100, end |-> e, text |-> t] :
     e \in {1400, 1500, 1800, 2000, 2100, 2200}, t \in {TextSave, TextOk}}

\* the max_gap_seconds values filter_clicks_by_speech is called with
MaxGapDomain == {200, DEFAULT_MAX_GAP_SECONDS}

\* ------------------------------------------------------------------------
\* VideoProcessor (app/services/video_processor.py)
\* ------------------------------------------------------------------------
\* what one subprocess.run of the transcoder can do: exit with a return
\* code or exceed the timeout, and leave its output file present or not
TranscodeOutcome == [rc : {"zero", "nonzero", "timeout"}, file : BOOLEAN]

\* no transcoding call made yet
NoOutcome == [rc |-> "none", file |-> FALSE]

\* the atempo range of the transcoder
ATEMPO_MIN == <<1, 2>>
ATEMPO_MAX == <<2, 1>>

\* speed_factor = max(0.5, min(2.0, speed_factor)) of _extract_and_zoom_segment
ClampSpeed(speed_factor) == RMax(ATEMPO_MIN, RMin(ATEMPO_MAX, speed_factor))

\* the speed factor _extract_and_zoom_segment hands to atempo for a step;
\* the division raises when the step's duration is 0
DivisionRaises(step) == step.original_duration > 0 /\ step.duration = 0

SegmentSpeedFactor(step) ==
  ClampSpeed(IF step.original_duration > 0
             THEN Rat(step.original_duration, step.duration)
             ELSE ROne)

\* variant of _extract_and_zoom_segment that looks only at the output file
ExtractIgnoringExit(o) == o.rc # "timeout" /\ o.file

\* the return value of _extract_and_zoom_segment for a transcoder outcome
_extract_and_zoom_segment(o) == o.rc = "zero" /\ o.file

\* whether output_video exists after a command that writes it
OutputAfter(o, before) == IF o.rc = "zero" THEN o.file ELSE before \/ o.file

\* the return value of _copy_video: the return code is not looked at
_copy_video(o, before) == o.rc # "timeout" /\ OutputAfter(o, before)

\* the return value of _reencode_concat
_reencode_concat(o) == o.rc = "zero" /\ o.file

\* the cascade loops of _apply_single_stretch
RECURSIVE SlowCascade(_)
SlowCascade(current) ==
  IF RLt(current, ATEMPO_MIN)
  THEN <<ATEMPO_MIN>> \o SlowCascade(RDiv(current, ATEMPO_MIN))
  ELSE <<>>

RECURSIVE FastCascade(_)
FastCascade(current) ==
  IF RLt(ATEMPO_MAX, current)
  THEN <<ATEMPO_MAX>> \o FastCascade(RDiv(current, ATEMPO_MAX))
  ELSE IF RLt(ATEMPO_MIN, current) THEN <<current>> ELSE <<>>

\* variant of _apply_single_stretch that passes the factor on as it is
SingleStageOnly(speed_factor) == <<speed_factor>>

\* atempo_values of _apply_single_stretch(speed_factor), speed_factor > 0
_apply_single_stretch(speed_factor) ==
  IF RLe(ATEMPO_MIN, speed_factor) /\ RLe(speed_factor, ATEMPO_MAX)
  THEN <<speed_factor>>
  ELSE IF RLt(speed_factor, ATEMPO_MIN) THEN SlowCascade(speed_factor)
  ELSE FastCascade(speed_factor)

\* whether a single-stretch command succeeded
StretchSucceeded(o) == o.rc = "zero" /\ o.file

\* ---- the callers of generate_video_with_zoom ------------------------------
\* SmartAligner.apply_alignment: the StepSegment list built from a result
apply_alignment(alignment_result) ==
  [i \in DOMAIN alignment_result.steps |->
     [original_duration |-> StepOriginalDuration(alignment_result.steps[i]),
      duration |-> StepDuration(alignment_result.steps[i])]]

\* the recordings whose alignment is rendered
AlignmentInputs ==
  { [voices |-> <<>>, actions |-> <<>>],
    [voices |-> <<Voice(1000, 1200, TextSave)>>,
     actions |-> <<[action_type |-> "click", timestamp |-> 1250]>>],
    [voices |-> <<Voice(1000, 1200, TextSave), Voice(1300, 1400, TextPause)>>,
     actions |-> <<[action_type |-> "click", timestamp |-> 1250],
                   [action_type |-> "click", timestamp |-> 1500]>>],
    [voices |-> <<Voice(1300, 1400, TextPause), Voice(1000, 1200, TextSave)>>,
     actions |-> <<[action_type |-> "click", timestamp |-> 1500],
                   [action_type |-> "click", timestamp |-> 1250]>>] }

AlignmentResults == {align(input.voices, input.actions) : input \in AlignmentInputs}

\* render_video_with_steps(db, guide_id) on the rows of the guide's steps:
\* False without steps; otherwise the first step.zoom_region raises, GuideStep
\* having no such attribute
render_video_with_steps(rows) ==
  IF rows = <<>> THEN "False" ELSE "AttributeError"

\* ---- the inputs of the video operations ---------------------------------
MaxSegments == 2
MaxDepth == 3

Segment(od, d) == [original_duration |-> od, duration |-> d]

SegmentDomain ==
  {Segment(200, 200), Segment(500, 100), Segment(100, 400),
   Segment(0, 100), Segment(200, 0)}

\* original and target durations of a whole-clip stretch
StretchOriginals == {0, 100, 300, 800}
StretchTargets == {100, 200, 400, 800}

\* ---- ZoomRegion --------------------------------------------------------
\* an Optional[int]: <<>> is None, <<v>> is the integer v
NoInt == <<>>
SomeInt(v) == <<v>>

\* variant of ZoomRegion that keeps a center the caller passed
ZoomRegionKeepingCenter(args) ==
  [x |-> args.x, y |-> args.y, width |-> args.width, height |-> args.height,
   target_width |-> IF args.target_width = 0 THEN args.width ELSE args.target_width,
   target_height |-> IF args.target_height = 0 THEN args.height ELSE args.target_height,
   center_x |-> IF args.center_x = NoInt THEN SomeInt(args.x + args.width \div 2)
                ELSE args.center_x,
   center_y |-> IF args.center_y = NoInt THEN SomeInt(args.y + args.height \div 2)
                ELSE args.center_y]

\* ZoomRegion(...): the dataclass fields after __init__ and __post_init__;
\* // is floor division, as \div is
ZoomRegion(args) ==
  [x |-> args.x, y |-> args.y, width |-> args.width, height |-> args.height,
   target_width |-> IF args.target_width = 0 THEN args.width ELSE args.target_width,
   target_height |-> IF args.target_height = 0 THEN args.height ELSE args.target_height,
   center_x |-> SomeInt(args.x + args.width \div 2),
   center_y |-> SomeInt(args.y + args.height \div 2)]

\* the constructor arguments tried
ZoomArgsDomain ==
  [x : {0, 100}, y : {200}, width : {-3, 0, 3, 300}, height : {7, 100},
   target_width : {0, 600}, target_height : {0, 200},
   center_x : {NoInt, SomeInt(5)}, center_y : {NoInt, SomeInt(5)}]

NoZoomArgs ==
  [x |-> 0, y |-> 0, width |-> 0, height |-> 0, target_width |-> 0,
   target_height |-> 0, center_x |-> NoInt, center_y |-> NoInt]

\* ---- run_ai_subprocess and the heartbeat manager --------------------------
MaxBeats == 2

\* the job ids handed to register_job and unregister_job, the number of such
\* calls and the number of heartbeat loop rounds
JobIds == {"job_a", "job_b"}
MaxCalls == 4
MaxLoops == 2

\* the task types the Celery tasks pass to run_ai_subprocess
TaskTypes ==
  {"video_processing", "shorts_generation", "ai_transcription", "ai_processing",
   "tts_generation", "smart_alignment", "wiki_generation"}

\* HeartbeatManager._update_heartbeat: writes the key when Redis is connected
\* and the job is registered
_update_heartbeat(redis, active, key) == IF redis /\ active THEN TRUE ELSE key

\* HeartbeatManager.register_job: the job's entry in active_jobs and its key
register_job(redis, key) ==
  [active_job |-> TRUE, hb_key |-> _update_heartbeat(redis, TRUE, key)]

\* HeartbeatManager.unregister_job: the entry popped, the key deleted when
\* Redis is connected
unregister_job(redis, key) ==
  [active_job |-> FALSE, hb_key |-> IF redis THEN FALSE ELSE key]

\* how the subprocess can end within process.communicate: it exits or the
\* timeout expires; it has written the output file or not, valid JSON or not
CommunicateOutcomes ==
  [kind : {"exited", "timeout"}, wrote : BOOLEAN, valid : BOOLEAN]

\* run_ai_subprocess from process.communicate on: the temporary files left
\* and what the call returns or raises
AfterCommunicate(o) ==
  IF o.kind = "timeout"
    THEN [input_file |-> TRUE, output_file |-> o.wrote, ai_result |-> "TimeoutError"]
  ELSE IF o.wrote /\ o.valid
    THEN [input_file |-> FALSE, output_file |-> FALSE, ai_result |-> "result"]
  ELSE IF o.wrote
    THEN [input_file |-> FALSE, output_file |-> FALSE, ai_result |-> "JSONDecodeError"]
  ELSE [input_file |-> FALSE, output_file |-> FALSE, ai_result |-> "RuntimeError"]

\* ---- check_stale_tasks ----------------------------------------------------
MaxTicks == 7
MaxPasses == 2

\* settings.HEARTBEAT_INTERVAL and settings.STALE_TASK_THRESHOLD, in seconds
HEARTBEAT_INTERVAL == 10
STALE_TASK_THRESHOLD == 60

\* the XPENDING_RANGE count of check_stale_tasks
PENDING_RANGE_COUNT == 100

\* pending counts a consumer can report for its messages in flight
PendingDomain == {1, 3, 60001}

\* check_stale_tasks, the test made on one consumer: last_seen is the
\* consumer's "pending" field, idle_time = last_seen / 1000; the job's
\* heartbeat key is not read
IsStaleConsumer(last_seen) ==
  /\ last_seen # 0
  /\ last_seen > STALE_TASK_THRESHOLD * 1000

\* the answers Redis can give to one pass: XINFO answers, answers with an
\* empty stream description, or raises; XPENDING / XCLAIM succeed or raise
RedisAnswers == [info : {"ok", "empty", "raises"}, claim_ok : BOOLEAN]

NoStats == [stale_count |-> 0, reclaimed_count |-> 0, outcome |-> "none"]

\* check_stale_tasks: what one pass returns or raises and whether the job's
\* pending message was claimed
check_stale_tasks(last_seen, redis) ==
  IF redis.info = "raises"
    THEN [stale_count |-> 0, reclaimed_count |-> 0, outcome |-> "UnboundLocalError"]
  ELSE IF redis.info = "empty"
    THEN [stale_count |-> 0, reclaimed_count |-> 0, outcome |-> "returned"]
  ELSE IF ~IsStaleConsumer(last_seen)
    THEN [stale_count |-> 0, reclaimed_count |-> 0, outcome |-> "returned"]
  ELSE IF ~redis.claim_ok
    THEN [stale_count |-> 1, reclaimed_count |-> 0, outcome |-> "returned"]
  ELSE [stale_count |-> 1,
        reclaimed_count |-> IF last_seen < PENDING_RANGE_COUNT THEN last_seen
                            ELSE PENDING_RANGE_COUNT,
        outcome |-> "returned"]

\* ---- guides, their steps and the processing run ---------------------------
MaxGuideSteps == 3
MaxRequests == 3

\* the members of models.GuideStatus, by value
GuideStatus == {"draft", "ready", "generating", "completed", "failed"}

\* the module-level binding of api/processing.py
AsyncSessionLocal == None

\* an Optional[str]: <<>> is None, <<t>> is the string t
NoText == <<>>
SomeText(t) == <<t>>

\* str.strip()
RECURSIVE LStrip(_)
LStrip(t) == IF t # <<>> /\ IsSpace(Head(t)) THEN LStrip(Tail(t)) ELSE t
RECURSIVE RStrip(_)
RStrip(t) ==
  IF t # <<>> /\ IsSpace(t[Len(t)]) THEN RStrip(SubSeq(t, 1, Len(t) - 1)) ELSE t
Strip(t) == RStrip(LStrip(t))

\* the texts sent in request bodies: "", " OK " and "S"
BodyTexts == {<<>>, <<32, 79, 75, 32>>, <<83>>}

\* a GuideStep row; needs_regenerate is "unset" while the object has no such
\* attribute (it is not a column)
NewStep(number) ==
  [step_number |-> number, normalized_text |-> <<78>>, edited_text |-> NoText,
   needs_regenerate |-> "unset", tts_audio_path |-> NoText]

\* GuideStepUpdate bodies: which fields were sent, and edited_text
StepUpdates ==
  {u \in [edited_text_set : BOOLEAN, final_text_set : BOOLEAN,
          edited_text : {NoText} \cup {SomeText(t) : t \in BodyTexts}] :
     ~u.edited_text_set => u.edited_text = NoText}

\* update_guide_step: the rows after the request and its outcome. Assigning
\* final_text raises (it is a property without setter) before the commit
update_guide_step(rows, step_id, step_update) ==
  IF step_id \notin DOMAIN rows
    THEN [steps |-> rows, http |-> "404"]
  ELSE IF step_update.final_text_set \/ step_update.edited_text # NoText
    THEN [steps |-> rows, http |-> "AttributeError"]
  ELSE [steps |-> IF step_update.edited_text_set
                    THEN [rows EXCEPT ![step_id].edited_text = NoText]
                    ELSE rows,
        http |-> "200"]

\* update_step_text: edited_text is set to the stripped body text and committed
update_step_text(rows, step_id, body) ==
  IF step_id \notin DOMAIN rows
    THEN [steps |-> rows, http |-> "404"]
  ELSE [steps |-> [rows EXCEPT ![step_id].edited_text = SomeText(Strip(body))],
        http |-> "200"]

\* whether the step numbers of the rows are pairwise distinct
\* (UniqueConstraint uq_guide_step_number)
UniqueNumbers(rows) ==
  \A a, b \in DOMAIN rows : a # b => rows[a].step_number # rows[b].step_number

\* the UPDATE statements of a flush, from id s on: the changed rows in
\* primary-key order, each checked against uq_guide_step_number as the table
\* stands when it runs
RECURSIVE FlushUpdates(_, _, _)
FlushUpdates(rows, target, s) ==
  IF s > MaxGuideSteps THEN [rows |-> rows, ok |-> TRUE]
  ELSE IF s \notin DOMAIN target \/ target[s] = rows[s]
       THEN FlushUpdates(rows, target, s + 1)
  ELSE IF ~UniqueNumbers([rows EXCEPT ![s] = target[s]])
       THEN [rows |-> rows, ok |-> FALSE]
  ELSE FlushUpdates([rows EXCEPT ![s] = target[s]], target, s + 1)

\* db.commit() of a step request: the session has autoflush off, so its
\* UPDATEs then its DELETEs run here; a failed statement rolls all back
commit(rows, target, deleted) ==
  LET flushed == FlushUpdates(rows, target, 1)
  IN  IF flushed.ok
        THEN [steps |-> [s \in DOMAIN rows \ deleted |-> flushed.rows[s]], http |-> "200"]
        ELSE [steps |-> rows, http |-> "IntegrityError"]

\* merge_steps: the first step by number takes merged_text, the others are
\* deleted, the steps outside step_ids are renumbered from 1
merge_steps(rows, step_ids, merged_text) ==
  LET steps_to_merge == step_ids \cap DOMAIN rows
      first_step == CHOOSE s \in steps_to_merge :
                      \A o \in steps_to_merge : rows[s].step_number <= rows[o].step_number
      remaining_steps == DOMAIN rows \ step_ids
      position(s) ==
        1 + Cardinality({o \in remaining_steps :
                           rows[o].step_number < rows[s].step_number})
      merged ==
        [s \in remaining_steps \cup {first_step} |->
           IF s = first_step
             THEN [rows[s] EXCEPT !.edited_text = SomeText(Strip(merged_text))]
             ELSE [rows[s] EXCEPT !.step_number = position(s)]]
  IN  IF Cardinality(step_ids) < 2 THEN [steps |-> rows, http |-> "400"]
      ELSE IF Cardinality(steps_to_merge) < 2 THEN [steps |-> rows, http |-> "404"]
      ELSE commit(rows, merged, steps_to_merge \ {first_step})

\* the request bodies of reorder_steps: lists of distinct step ids
ReorderBodies ==
  UNION {{q \in [1..n -> 1..MaxGuideSteps] : \A i, j \in 1..n : i # j => q[i] # q[j]} :
           n \in 0..MaxGuideSteps}

\* reorder_steps: each listed step of the guide gets its position in
\* step_ids as step_number, the steps not listed keep theirs
reorder_steps(rows, new_order) ==
  LET new_number(s) == CHOOSE k \in 1..Len(new_order) :
                         new_order[k] = s /\ \A m \in (k + 1)..Len(new_order) : new_order[m] # s
      listed == {new_order[k] : k \in 1..Len(new_order)}
      reordered ==
        [s \in DOMAIN rows |->
           IF s \in listed THEN [rows[s] EXCEPT !.step_number = new_number(s)]
           ELSE rows[s]]
  IN  IF new_order = <<>> THEN [steps |-> rows, http |-> "400"]
      ELSE commit(rows, reordered, {})

\* delete_step: the step is marked deleted, guide.steps is loaded (the
\* DELETE is not flushed yet, so the list still holds the step), sorted by
\* number and renumbered from 1
delete_step(rows, step_id) ==
  LET position(s) ==
        1 + Cardinality({o \in DOMAIN rows : rows[o].step_number < rows[s].step_number})
      renumbered ==
        [s \in DOMAIN rows \ {step_id} |-> [rows[s] EXCEPT !.step_number = position(s)]]
  IN  IF step_id \notin DOMAIN rows THEN [steps |-> rows, http |-> "404"]
      ELSE commit(rows, renumbered, {step_id})

\* create_step: 400 when the number is taken; otherwise GuideStep(...) is
\* given original_text, which is no attribute of the model, and raises
create_step(rows, step_number) ==
  IF \E s \in DOMAIN rows : rows[s].step_number = step_number
    THEN [steps |-> rows, http |-> "400"]
    ELSE [steps |-> rows, http |-> "TypeError"]

\* magic_edit: whether it schedules process_guide_background(guide_id, step_ids)
magic_edit(rows, step_ids) ==
  IF step_ids = {} THEN "400"
  ELSE IF step_ids \cap DOMAIN rows = {} THEN "404"
  ELSE "200"

\* the rows of a guide as a list
RowList(rows) ==
  CHOOSE q \in [1..Cardinality(DOMAIN rows) -> DOMAIN rows] :
    \A i, j \in DOMAIN q : i # j => q[i] # q[j]

\* regenerate_steps_audio: whether it raises. Reading step.original_text
\* raises when edited_text is empty or None, and assigning step.final_text
\* raises when the audio was generated
regenerate_steps_audio(rows, step_ids, tts_ok) ==
  \E s \in step_ids \cap DOMAIN rows :
    \/ rows[s].edited_text \in {NoText, SomeText(<<>>)}
    \/ tts_ok

NoRun ==
  [kind |-> "none", regenerate_steps |-> {}, raised |-> "none", entered |-> FALSE,
   rendered |-> <<>>, concat |-> <<>>]

\* process_guide_background(guide_id, regenerate_steps): the guide's status
\* and error message after the run, the exception that left it, whether the
\* status was set to PROCESSING, and the segments rendered and concatenated
process_guide_background(status, error, rows, regenerate_steps, tts_ok) ==
  LET outcome(st, err, raised, entered) ==
        [status |-> st, error_message |-> err, raised |-> raised,
         entered |-> entered, rendered |-> <<>>, concat |-> <<>>]
  IN  IF AsyncSessionLocal = None
        THEN outcome(status, error, "TypeError", FALSE)
      ELSE IF "processing" \notin GuideStatus
        THEN outcome("failed", SomeText("AttributeError"), "none", FALSE)
      ELSE IF regenerate_steps = {}
        THEN outcome("completed", error, "none", TRUE)
      ELSE IF regenerate_steps_audio(rows, regenerate_steps, tts_ok)
        THEN outcome("failed", SomeText("AttributeError"), "none", TRUE)
      ELSE IF render_video_with_steps(RowList(rows)) = "AttributeError"
        THEN outcome("failed", SomeText("AttributeError"), "none", TRUE)
      ELSE outcome("completed", error, "none", TRUE)

\* the ids whose edited_text differs between two sets of rows
TextChanged(before, after) ==
  {s \in DOMAIN before \cap DOMAIN after : before[s].edited_text # after[s].edited_text}

\* ------------------------------------------------------------------------
\* Specifications
\* ------------------------------------------------------------------------
ZoomIdle == zr_args = NoZoomArgs /\ zr_done = FALSE /\ zoom_region = NoZoomArgs

AiIdle ==
  /\ ai_pc = "idle" /\ ai_task_type = "video_processing"
  /\ script_exists = TRUE /\ hb_redis = FALSE
  /\ input_file = FALSE /\ output_file = FALSE
  /\ active_job = FALSE /\ hb_key = FALSE /\ hb_beats = 0
  /\ ai_result = "pending"

GcIdle ==
  /\ gc_now = 0 /\ owner_alive = FALSE /\ last_heartbeat = 0
  /\ consumer_pending = 0 /\ msg_owner = "none" /\ gc_passes = 0
  /\ pass_age = 0 /\ reclaim_age = 0 /\ gc_stats = NoStats

GuideIdle ==
  /\ guide_status = "draft" /\ error_message = NoText
  /\ guide_steps = <<>> /\ bg_tasks = <<>> /\ run = NoRun
  /\ text_changed = {} /\ requests = 0 /\ http = "none"

ContextIdle ==
  ctx_text = <<>> /\ ctx_type = "click" /\ ctx_score = RZero /\ ctx_done = FALSE

HeartbeatIdle ==
  /\ hm_redis = FALSE /\ active_jobs = <<>> /\ unregistered = {}
  /\ heartbeat_keys = [j \in JobIds |-> "absent"]
  /\ worker_pc = "idle" /\ worker_job = "none"
  /\ loop_pc = "wait" /\ loop_jobs = <<>> /\ loop_job = "none"
  /\ hm_calls = 0 /\ hm_loops = 0

ShortsIdle ==
  /\ sh_status = "draft" /\ sh_error = NoText /\ sh_screens = <<>>
  /\ sh_pc = "idle" /\ sh_result = "none" /\ sh_http = "none"

MiscIdle == ContextIdle /\ HeartbeatIdle /\ ShortsIdle

ServiceIdle == ZoomIdle /\ AiIdle /\ GcIdle /\ GuideIdle /\ MiscIdle

AlignIdle ==
  /\ voice_segments = <<>> /\ screen_actions = <<>>
  /\ align_runs = 0 /\ result = NoResult /\ prev_result = NoResult

DetectIdle ==
  /\ clicks = <<>> /\ speech_segments = <<>> /\ det_i = 0 /\ steps = <<>>
  /\ max_gap_seconds = DEFAULT_MAX_GAP_SECONDS
  /\ filter_done = FALSE /\ filtered = <<>>

VideoIdle ==
  /\ vp_pc = "idle" /\ vp_op = "none" /\ vp_steps = <<>>
  /\ segment_files = <<>> /\ rendered = <<>>
  /\ concat_list = <<>> /\ concat_log = <<>> /\ copy_outcome = NoOutcome
  /\ output_touched = FALSE /\ temp_dir = FALSE /\ vp_result = "pending"
  /\ ts_duration = RZero /\ ts_target = RZero /\ ts_requested = RZero
  /\ ts_depth = 0 /\ stages = <<>>
  /\ caller = "none" /\ step_numbers = <<>>

\* ---- SmartAligner.align called on one pair of lists, up to MaxRuns times
MaxRuns == 2

InitAlign ==
  /\ voice_segments \in BoundedSeq(VoiceDomain, MaxVoices)
  /\ screen_actions \in BoundedSeq(ActionDomain, MaxActions)
  /\ align_runs = 0
  /\ result = NoResult
  /\ prev_result = NoResult
  /\ DetectIdle
  /\ VideoIdle
  /\ ServiceIdle
  /\ output_exists = FALSE

Align ==
  /\ align_runs < MaxRuns
  /\ result' = align(voice_segments, screen_actions)
  /\ prev_result' = result
  /\ align_runs' = align_runs + 1
  /\ voice_segments' = VoicesAfterAlign(voice_segments)
  /\ UNCHANGED <<screen_actions, detectVars, videoVars, serviceVars>>

NextAlign == Align

SpecAlign == InitAlign /\ [][NextAlign]_vars

\* ---- StepDetector.detect_steps, one loop iteration per step
InitDetect ==
  /\ clicks \in BoundedSeq(ClickDomain, MaxClicks)
  /\ speech_segments \in BoundedSeq(SpeechDomain, MaxSpeech)
  /\ det_i = 0
  /\ steps = <<>>
  /\ max_gap_seconds \in MaxGapDomain
  /\ filter_done = FALSE
  /\ filtered = <<>>
  /\ AlignIdle
  /\ VideoIdle
  /\ ServiceIdle
  /\ output_exists = FALSE

DetectStep ==
  /\ det_i < Len(clicks)
  /\ steps' = Append(steps, StepCandidate(clicks[det_i + 1], speech_segments))
  /\ det_i' = det_i + 1
  /\ UNCHANGED <<clicks, speech_segments, max_gap_seconds, filter_done, filtered,
                 alignVars, videoVars, serviceVars>>

\* one call of filter_clicks_by_speech on the same clicks and segments
FilterClicks ==
  /\ ~filter_done
  /\ filtered' = filter_clicks_by_speech(clicks, speech_segments, max_gap_seconds)
  /\ filter_done' = TRUE
  /\ UNCHANGED <<clicks, speech_segments, det_i, steps, max_gap_seconds,
                 alignVars, videoVars, serviceVars>>

NextDetect ==
  \/ DetectStep
  \/ FilterClicks

SpecDetect == InitDetect /\ [][NextDetect]_vars

\* ---- VideoProcessor: one call of generate_video_with_zoom or of
\* apply_time_stretch, one step per external command
InitVideo ==
  /\ VideoIdle
  /\ output_exists \in BOOLEAN
  /\ AlignIdle
  /\ DetectIdle
  /\ ServiceIdle

stretchVars == <<ts_duration, ts_target, ts_requested, ts_depth, stages>>
callerVars == <<caller, step_numbers>>
renderVars ==
  <<vp_steps, segment_files, rendered, concat_list, concat_log, copy_outcome, temp_dir, callerVars>>

\* a returned bool
Returned(b) == IF b THEN "True" ELSE "False"

\* return from generate_video_with_zoom through its finally block
Return(value) ==
  /\ vp_pc' = "done"
  /\ vp_result' = value
  /\ temp_dir' = FALSE

\* generate_video_with_zoom is entered: with no steps it goes to _copy_video,
\* otherwise it probes the input and creates the temporary directory
EnterGenerate(input, probe_ok) ==
  /\ vp_op' = "generate"
  /\ vp_steps' = input
  /\ IF input = <<>>
     THEN /\ vp_pc' = "copy"
          /\ UNCHANGED <<vp_result, temp_dir>>
     ELSE IF ~probe_ok
          THEN /\ vp_pc' = "done"
               /\ vp_result' = "raised"
               /\ UNCHANGED temp_dir
     ELSE /\ vp_pc' = "render"
          /\ temp_dir' = TRUE
          /\ UNCHANGED vp_result

\* generate_video_with_zoom called with a list of StepSegment
CallGenerate ==
  /\ vp_pc = "idle"
  /\ \E input \in BoundedSeq(SegmentDomain, MaxSegments), probe_ok \in BOOLEAN :
       EnterGenerate(input, probe_ok)
  /\ caller' = "generate_video_with_zoom"
  /\ step_numbers' = <<>>
  /\ UNCHANGED <<segment_files, rendered, concat_list, concat_log, copy_outcome,
                 output_exists, output_touched, stretchVars, alignVars, detectVars, serviceVars>>

\* SmartAligner.apply_alignment: one StepSegment per step of the
\* AlignmentResult, in the order of its list, handed to
\* generate_video_with_zoom
ApplyAlignment ==
  /\ vp_pc = "idle"
  /\ \E alignment_result \in AlignmentResults, probe_ok \in BOOLEAN :
       /\ EnterGenerate(apply_alignment(alignment_result), probe_ok)
       /\ step_numbers' = [i \in DOMAIN alignment_result.steps |->
                             alignment_result.steps[i].step_number]
  /\ caller' = "apply_alignment"
  /\ UNCHANGED <<segment_files, rendered, concat_list, concat_log, copy_outcome,
                 output_exists, output_touched, stretchVars, alignVars, detectVars, serviceVars>>

\* render_video_with_steps: the guide's steps as the query returns them (it
\* has no ORDER BY); no segment is built and the video processor is not called
RenderVideoWithSteps ==
  /\ vp_pc = "idle"
  /\ \E n \in 0..MaxSegments :
       \E rows \in Permutations(1..n) :
         /\ step_numbers' = rows
         /\ vp_result' = render_video_with_steps(rows)
  /\ caller' = "render_video_with_steps"
  /\ vp_op' = "render_video_with_steps"
  /\ vp_pc' = "done"
  /\ UNCHANGED <<vp_steps, segment_files, rendered, concat_list, concat_log, copy_outcome, temp_dir,
                 output_exists, output_touched, stretchVars, alignVars, detectVars,
                 serviceVars>>

\* _copy_video
CopyVideo ==
  /\ vp_pc = "copy"
  /\ \E o \in TranscodeOutcome :
       /\ output_exists' = OutputAfter(o, output_exists)
       /\ vp_result' = Returned(_copy_video(o, output_exists))
       /\ copy_outcome' = o
  /\ output_touched' = TRUE
  /\ vp_pc' = "done"
  /\ UNCHANGED <<vp_op, vp_steps, segment_files, rendered, concat_list, concat_log,
                 temp_dir, callerVars, stretchVars, alignVars, detectVars, serviceVars>>

\* one iteration of the segment loop: _extract_and_zoom_segment on the next
\* step; a False return leaves generate_video_with_zoom
RenderSegment ==
  /\ vp_pc = "render"
  /\ Len(segment_files) < Len(vp_steps)
  /\ LET i == Len(segment_files) + 1
         step == vp_steps[i]
     IN  /\ segment_files' = Append(segment_files, i)
         /\ IF DivisionRaises(step)
            THEN /\ Return("raised")
                 /\ UNCHANGED rendered
            ELSE \E o \in TranscodeOutcome :
                   /\ rendered' = Append(rendered,
                                         [segment |-> i,
                                          speed_factor |-> SegmentSpeedFactor(step),
                                          outcome |-> o])
                   /\ IF _extract_and_zoom_segment(o)
                      THEN UNCHANGED <<vp_pc, vp_result, temp_dir>>
                      ELSE Return("False")
  /\ UNCHANGED <<vp_op, vp_steps, callerVars, concat_list, concat_log, copy_outcome, output_exists,
                 output_touched, stretchVars, alignVars, detectVars, serviceVars>>

\* _create_concat_list and the stream-copy command of _concatenate_segments
ConcatenateSegments ==
  /\ vp_pc = "render"
  /\ Len(segment_files) = Len(vp_steps)
  /\ concat_list' = segment_files
  /\ output_touched' = TRUE
  /\ \E o \in TranscodeOutcome :
       /\ concat_log' = Append(concat_log, [kind |-> "copy", outcome |-> o])
       /\ output_exists' = OutputAfter(o, output_exists)
       /\ IF o.rc = "timeout" THEN Return("False")
          ELSE IF o.rc # "zero"
               THEN /\ vp_pc' = "reencode"
                    /\ UNCHANGED <<vp_result, temp_dir>>
          ELSE Return(Returned(o.file))
  /\ UNCHANGED <<vp_op, vp_steps, callerVars, segment_files, rendered, copy_outcome,
                 stretchVars, alignVars, detectVars, serviceVars>>

\* _reencode_concat, reached from a non-zero exit of the stream copy
ReencodeConcat ==
  /\ vp_pc = "reencode"
  /\ \E o \in TranscodeOutcome :
       /\ concat_log' = Append(concat_log, [kind |-> "reencode", outcome |-> o])
       /\ output_exists' = OutputAfter(o, output_exists)
       /\ Return(Returned(_reencode_concat(o)))
  /\ UNCHANGED <<vp_op, vp_steps, callerVars, segment_files, rendered, concat_list,
                 copy_outcome, output_touched, stretchVars, alignVars, detectVars,
                 serviceVars>>

\* apply_time_stretch is called on a clip
CallStretch ==
  /\ vp_pc = "idle"
  /\ \E original \in StretchOriginals, target \in StretchTargets :
       /\ ts_duration' = Rat(original, 1)
       /\ ts_target' = Rat(target, 1)
       /\ ts_requested' = Rat(original, target)
  /\ vp_op' = "stretch"
  /\ vp_pc' = "stretch"
  /\ ts_depth' = 0
  /\ stages' = <<>>
  /\ UNCHANGED <<vp_result, renderVars, output_exists, output_touched,
                 alignVars, detectVars, serviceVars>>

\* apply_time_stretch with a non-positive probed duration
StretchRejects ==
  /\ vp_pc = "stretch"
  /\ RLe(ts_duration, RZero)
  /\ vp_pc' = "done"
  /\ vp_result' = "False"
  /\ UNCHANGED <<vp_op, renderVars, output_exists, output_touched,
                 stretchVars, alignVars, detectVars, serviceVars>>

\* apply_time_stretch with speed_factor > 2.0: a 2.0 stage into an
\* intermediate file, then the recursive call on it with target_duration / 2.
\* The duration probed for the intermediate file is halved, or unchanged
\* when the copied video stream keeps the container's length.
StretchHalve ==
  /\ vp_pc = "stretch"
  /\ RLt(RZero, ts_duration)
  /\ RLt(ATEMPO_MAX, RDiv(ts_duration, ts_target))
  /\ ts_depth < MaxDepth
  /\ stages' = stages \o _apply_single_stretch(ATEMPO_MAX)
  /\ \E o \in TranscodeOutcome :
       IF StretchSucceeded(o)
       THEN /\ \E probed \in {RDiv(ts_duration, ATEMPO_MAX), ts_duration} :
                 ts_duration' = probed
            /\ ts_target' = RDiv(ts_target, ATEMPO_MAX)
            /\ ts_depth' = ts_depth + 1
            /\ UNCHANGED <<vp_pc, vp_result>>
       ELSE /\ vp_pc' = "done"
            /\ vp_result' = "False"
            /\ UNCHANGED <<ts_duration, ts_target, ts_depth>>
  /\ UNCHANGED <<vp_op, ts_requested, renderVars, output_exists, output_touched,
                 alignVars, detectVars, serviceVars>>

\* apply_time_stretch with speed_factor <= 2.0: one _apply_single_stretch
StretchFinal ==
  /\ vp_pc = "stretch"
  /\ RLt(RZero, ts_duration)
  /\ ~RLt(ATEMPO_MAX, RDiv(ts_duration, ts_target))
  /\ stages' = stages \o _apply_single_stretch(RDiv(ts_duration, ts_target))
  /\ \E o \in TranscodeOutcome :
       /\ vp_result' = Returned(StretchSucceeded(o))
       /\ output_exists' = OutputAfter(o, output_exists)
  /\ output_touched' = TRUE
  /\ vp_pc' = "done"
  /\ UNCHANGED <<vp_op, ts_duration, ts_target, ts_requested, ts_depth,
                 renderVars, alignVars, detectVars, serviceVars>>

NextVideo ==
  \/ CallGenerate
  \/ ApplyAlignment
  \/ RenderVideoWithSteps
  \/ CopyVideo
  \/ RenderSegment
  \/ ConcatenateSegments
  \/ ReencodeConcat
  \/ CallStretch
  \/ StretchRejects
  \/ StretchHalve
  \/ StretchFinal

SpecVideo == InitVideo /\ [][NextVideo]_vars

\* the engine's own state while a service operation runs
EngineIdle == AlignIdle /\ DetectIdle /\ VideoIdle /\ output_exists = FALSE
engineVars == <<alignVars, detectVars, videoVars>>

\* ---- ZoomRegion: one construction
InitZoom ==
  /\ zr_args \in ZoomArgsDomain
  /\ zr_done = FALSE
  /\ zoom_region = NoZoomArgs
  /\ EngineIdle /\ AiIdle /\ GcIdle /\ GuideIdle /\ MiscIdle

ConstructZoomRegion ==
  /\ ~zr_done
  /\ zoom_region' = ZoomRegion(zr_args)
  /\ zr_done' = TRUE
  /\ UNCHANGED <<zr_args, engineVars, miscVars, aiVars, gcVars, guideVars>>

NextZoom == ConstructZoomRegion

SpecZoom == InitZoom /\ [][NextZoom]_vars

\* ---- run_ai_subprocess: one call, with the heartbeat thread running
InitAI ==
  /\ ai_pc = "idle"
  /\ ai_task_type \in TaskTypes
  /\ script_exists \in BOOLEAN
  /\ hb_redis \in BOOLEAN
  /\ input_file = FALSE /\ output_file = FALSE
  /\ active_job = FALSE /\ hb_key = FALSE /\ hb_beats = 0
  /\ ai_result = "pending"
  /\ EngineIdle /\ ZoomIdle /\ GcIdle /\ GuideIdle /\ MiscIdle

\* the call up to the try block: the script is looked up and the input file
\* is written
RunAiSubprocessCall ==
  /\ ai_pc = "idle"
  /\ IF ~script_exists
       THEN /\ ai_pc' = "done"
            /\ ai_result' = "FileNotFoundError"
            /\ UNCHANGED input_file
       ELSE /\ ai_pc' = "written"
            /\ input_file' = TRUE
            /\ UNCHANGED ai_result
  /\ UNCHANGED <<ai_task_type, script_exists, hb_redis, output_file, active_job,
                 hb_key, hb_beats, engineVars, miscVars, zoomVars, gcVars, guideVars>>

\* subprocess.Popen and register_job; a Popen that raises is handled by
\* `except Exception`
RunAiSubprocessPopen ==
  /\ ai_pc = "written"
  /\ \E started \in BOOLEAN :
       IF started
         THEN /\ ai_pc' = "started"
              /\ active_job' = register_job(hb_redis, hb_key).active_job
              /\ hb_key' = register_job(hb_redis, hb_key).hb_key
              /\ UNCHANGED <<input_file, output_file, ai_result>>
         ELSE /\ ai_pc' = "done"
              /\ active_job' = unregister_job(hb_redis, hb_key).active_job
              /\ hb_key' = unregister_job(hb_redis, hb_key).hb_key
              /\ input_file' = FALSE
              /\ output_file' = FALSE
              /\ ai_result' = "OSError"
  /\ UNCHANGED <<ai_task_type, script_exists, hb_redis, hb_beats, engineVars, miscVars, zoomVars, gcVars, guideVars>>

\* one iteration of HeartbeatManager._heartbeat_loop while the job runs
HeartbeatLoop ==
  /\ ai_pc = "started"
  /\ hb_redis
  /\ hb_beats < MaxBeats
  /\ hb_beats' = hb_beats + 1
  /\ hb_key' = _update_heartbeat(hb_redis, active_job, hb_key)
  /\ UNCHANGED <<ai_pc, ai_task_type, script_exists, hb_redis, input_file,
                 output_file, active_job, ai_result, engineVars, miscVars, zoomVars, gcVars, guideVars>>

\* process.communicate and everything after it
RunAiSubprocessCommunicate ==
  /\ ai_pc = "started"
  /\ \E o \in CommunicateOutcomes :
       /\ input_file' = AfterCommunicate(o).input_file
       /\ output_file' = AfterCommunicate(o).output_file
       /\ ai_result' = AfterCommunicate(o).ai_result
  /\ active_job' = unregister_job(hb_redis, hb_key).active_job
  /\ hb_key' = unregister_job(hb_redis, hb_key).hb_key
  /\ ai_pc' = "done"
  /\ UNCHANGED <<ai_task_type, script_exists, hb_redis, hb_beats, engineVars, miscVars, zoomVars, gcVars, guideVars>>

NextAI ==
  \/ RunAiSubprocessCall
  \/ RunAiSubprocessPopen
  \/ HeartbeatLoop
  \/ RunAiSubprocessCommunicate

SpecAI == InitAI /\ [][NextAI]_vars

\* ---- HeartbeatManager: the worker thread's register_job and unregister_job
\* calls interleaved with the heartbeat thread's loop, one step per access to
\* active_jobs or to Redis
\* redis.hset on a key: creates it, without a TTL, when it is absent
hset(keys, job_id) ==
  [keys EXCEPT ![job_id] = IF @ = "absent" THEN "persistent" ELSE @]

\* redis.expire on a key: sets the TTL of an existing key
expire(keys, job_id) ==
  [keys EXCEPT ![job_id] = IF @ = "absent" THEN "absent" ELSE "expiring"]

\* redis.delete on a key
delete(keys, job_id) == [keys EXCEPT ![job_id] = "absent"]

\* dict.pop(job_id, None) on active_jobs
pop(jobs, job_id) == SelectSeq(jobs, LAMBDA j : j # job_id)

ActiveJobIds == {active_jobs[i] : i \in 1..Len(active_jobs)}

InitHeartbeat ==
  /\ hm_redis \in BOOLEAN
  /\ active_jobs = <<>> /\ unregistered = {}
  /\ heartbeat_keys = [j \in JobIds |-> "absent"]
  /\ worker_pc = "idle" /\ worker_job = "none"
  /\ loop_pc = "wait" /\ loop_jobs = <<>> /\ loop_job = "none"
  /\ hm_calls = 0 /\ hm_loops = 0
  /\ EngineIdle /\ ZoomIdle /\ AiIdle /\ GcIdle /\ GuideIdle /\ ContextIdle /\ ShortsIdle

heartbeatOthers ==
  <<engineVars, zoomVars, aiVars, gcVars, guideVars, contextVars, shortsVars>>

\* register_job up to the active_jobs.get of its _update_heartbeat, which
\* finds the entry just stored; without a Redis client the call returns
RegisterJob ==
  /\ worker_pc = "idle"
  /\ hm_calls < MaxCalls
  /\ \E job_id \in JobIds \ ActiveJobIds :
       /\ active_jobs' = Append(active_jobs, job_id)
       /\ unregistered' = unregistered \ {job_id}
       /\ worker_job' = IF hm_redis THEN job_id ELSE "none"
  /\ worker_pc' = IF hm_redis THEN "hset" ELSE "idle"
  /\ hm_calls' = hm_calls + 1
  /\ UNCHANGED <<hm_redis, heartbeat_keys, loop_pc, loop_jobs, loop_job, hm_loops,
                 heartbeatOthers>>

\* the redis.hset of _update_heartbeat, on the worker thread
WorkerHset ==
  /\ worker_pc = "hset"
  /\ heartbeat_keys' = hset(heartbeat_keys, worker_job)
  /\ worker_pc' = "expire"
  /\ UNCHANGED <<hm_redis, active_jobs, unregistered, worker_job, loop_pc, loop_jobs,
                 loop_job, hm_calls, hm_loops, heartbeatOthers>>

\* the redis.expire of _update_heartbeat, after which register_job returns
WorkerExpire ==
  /\ worker_pc = "expire"
  /\ heartbeat_keys' = expire(heartbeat_keys, worker_job)
  /\ worker_pc' = "idle"
  /\ worker_job' = "none"
  /\ UNCHANGED <<hm_redis, active_jobs, unregistered, loop_pc, loop_jobs, loop_job,
                 hm_calls, hm_loops, heartbeatOthers>>

\* unregister_job: active_jobs.pop; without a Redis client the call returns
UnregisterPop ==
  /\ worker_pc = "idle"
  /\ hm_calls < MaxCalls
  /\ \E job_id \in ActiveJobIds :
       /\ active_jobs' = pop(active_jobs, job_id)
       /\ worker_job' = IF hm_redis THEN job_id ELSE "none"
       /\ unregistered' = IF hm_redis THEN unregistered ELSE unregistered \cup {job_id}
  /\ worker_pc' = IF hm_redis THEN "delete" ELSE "idle"
  /\ hm_calls' = hm_calls + 1
  /\ UNCHANGED <<hm_redis, heartbeat_keys, loop_pc, loop_jobs, loop_job, hm_loops,
                 heartbeatOthers>>

\* unregister_job: redis.delete, after which the call returns
UnregisterDelete ==
  /\ worker_pc = "delete"
  /\ heartbeat_keys' = delete(heartbeat_keys, worker_job)
  /\ unregistered' = unregistered \cup {worker_job}
  /\ worker_pc' = "idle"
  /\ worker_job' = "none"
  /\ UNCHANGED <<hm_redis, active_jobs, loop_pc, loop_jobs, loop_job, hm_calls,
                 hm_loops, heartbeatOthers>>

\* _heartbeat_loop: list(self.active_jobs.keys()) at the start of a round;
\* the thread runs once start() has set the Redis client
LoopSnapshot ==
  /\ loop_pc = "wait"
  /\ hm_redis
  /\ hm_loops < MaxLoops
  /\ loop_jobs' = active_jobs
  /\ loop_pc' = "next"
  /\ hm_loops' = hm_loops + 1
  /\ UNCHANGED <<hm_redis, active_jobs, heartbeat_keys, unregistered, worker_pc,
                 worker_job, loop_job, hm_calls, heartbeatOthers>>

\* _update_heartbeat for the next job of the list: active_jobs.get(job_id)
LoopGet ==
  /\ loop_pc = "next"
  /\ loop_jobs # <<>>
  /\ loop_jobs' = Tail(loop_jobs)
  /\ IF Head(loop_jobs) \in ActiveJobIds
     THEN loop_pc' = "hset" /\ loop_job' = Head(loop_jobs)
     ELSE UNCHANGED <<loop_pc, loop_job>>
  /\ UNCHANGED <<hm_redis, active_jobs, heartbeat_keys, unregistered, worker_pc,
                 worker_job, hm_calls, hm_loops, heartbeatOthers>>

\* the redis.hset of _update_heartbeat, on the heartbeat thread
LoopHset ==
  /\ loop_pc = "hset"
  /\ heartbeat_keys' = hset(heartbeat_keys, loop_job)
  /\ loop_pc' = "expire"
  /\ UNCHANGED <<hm_redis, active_jobs, unregistered, worker_pc, worker_job, loop_jobs,
                 loop_job, hm_calls, hm_loops, heartbeatOthers>>

\* the redis.expire of _update_heartbeat, on the heartbeat thread
LoopExpire ==
  /\ loop_pc = "expire"
  /\ heartbeat_keys' = expire(heartbeat_keys, loop_job)
  /\ loop_pc' = "next"
  /\ loop_job' = "none"
  /\ UNCHANGED <<hm_redis, active_jobs, unregistered, worker_pc, worker_job, loop_jobs,
                 hm_calls, hm_loops, heartbeatOthers>>

\* the round is over: _stop_event.wait(timeout=HEARTBEAT_INTERVAL)
LoopWait ==
  /\ loop_pc = "next"
  /\ loop_jobs = <<>>
  /\ loop_pc' = "wait"
  /\ UNCHANGED <<hm_redis, active_jobs, heartbeat_keys, unregistered, worker_pc,
                 worker_job, loop_jobs, loop_job, hm_calls, hm_loops, heartbeatOthers>>

\* Redis removes a key whose TTL has run out
KeyExpires ==
  /\ \E job_id \in JobIds :
       /\ heartbeat_keys[job_id] = "expiring"
       /\ heartbeat_keys' = delete(heartbeat_keys, job_id)
  /\ UNCHANGED <<hm_redis, active_jobs, unregistered, worker_pc, worker_job, loop_pc,
                 loop_jobs, loop_job, hm_calls, hm_loops, heartbeatOthers>>

NextHeartbeat ==
  \/ RegisterJob
  \/ WorkerHset
  \/ WorkerExpire
  \/ UnregisterPop
  \/ UnregisterDelete
  \/ LoopSnapshot
  \/ LoopGet
  \/ LoopHset
  \/ LoopExpire
  \/ LoopWait
  \/ KeyExpires

SpecHeartbeat == InitHeartbeat /\ [][NextHeartbeat]_vars

\* ---- the stale-task check: one job in flight, its owner, the periodic pass
InitGC ==
  /\ gc_now = 0
  /\ owner_alive = TRUE
  /\ last_heartbeat = 0
  /\ consumer_pending \in PendingDomain
  /\ msg_owner = "owner"
  /\ gc_passes = 0
  /\ pass_age = 0
  /\ reclaim_age = 0
  /\ gc_stats = NoStats
  /\ EngineIdle /\ ZoomIdle /\ AiIdle /\ GuideIdle /\ MiscIdle

\* HEARTBEAT_INTERVAL seconds pass
Tick ==
  /\ gc_now < MaxTicks * HEARTBEAT_INTERVAL
  /\ gc_now' = gc_now + HEARTBEAT_INTERVAL
  /\ UNCHANGED <<owner_alive, last_heartbeat, consumer_pending, msg_owner,
                 gc_passes, pass_age, reclaim_age, gc_stats, engineVars, miscVars, zoomVars,
                 aiVars, guideVars>>

\* the owner's heartbeat thread refreshes the job's marker
RefreshMarker ==
  /\ owner_alive
  /\ last_heartbeat # gc_now
  /\ last_heartbeat' = gc_now
  /\ UNCHANGED <<gc_now, owner_alive, consumer_pending, msg_owner, gc_passes,
                 pass_age, reclaim_age, gc_stats, engineVars, miscVars, zoomVars, aiVars, guideVars>>

\* the owner stops (crash or hang) with the job still pending
OwnerStops ==
  /\ owner_alive
  /\ owner_alive' = FALSE
  /\ UNCHANGED <<gc_now, last_heartbeat, consumer_pending, msg_owner, gc_passes,
                 pass_age, reclaim_age, gc_stats, engineVars, miscVars, zoomVars, aiVars, guideVars>>

\* one pass of the periodic check_stale_tasks task
CheckStaleTasks ==
  /\ gc_passes < MaxPasses
  /\ msg_owner = "owner"
  /\ gc_passes' = gc_passes + 1
  /\ pass_age' = gc_now - last_heartbeat
  /\ \E redis \in RedisAnswers :
       /\ gc_stats' = check_stale_tasks(consumer_pending, redis)
       /\ IF check_stale_tasks(consumer_pending, redis).reclaimed_count > 0
            THEN msg_owner' = "reclaimed" /\ reclaim_age' = gc_now - last_heartbeat
            ELSE UNCHANGED <<msg_owner, reclaim_age>>
  /\ UNCHANGED <<gc_now, owner_alive, last_heartbeat, consumer_pending, engineVars, miscVars,
                 zoomVars, aiVars, guideVars>>

NextGC ==
  \/ Tick
  \/ RefreshMarker
  \/ OwnerStops
  \/ CheckStaleTasks

SpecGC == InitGC /\ [][NextGC]_vars

\* ---- one guide: the step-editing requests, the processing requests and the
\* background runs they schedule
InitGuide ==
  /\ guide_status \in {"draft", "ready"}
  /\ error_message = NoText
  /\ \E n \in 1..MaxGuideSteps : guide_steps = [s \in 1..n |-> NewStep(s)]
  /\ bg_tasks = <<>>
  /\ run = NoRun
  /\ text_changed = {}
  /\ requests = 0
  /\ http = "none"
  /\ EngineIdle /\ ZoomIdle /\ AiIdle /\ GcIdle /\ MiscIdle

\* what every step-editing request does with its outcome
StepsRequest(outcome) ==
  /\ requests' = requests + 1
  /\ guide_steps' = outcome.steps
  /\ http' = outcome.http
  /\ text_changed' =
       (text_changed \cap DOMAIN outcome.steps) \cup TextChanged(guide_steps, outcome.steps)
  /\ UNCHANGED <<guide_status, error_message, bg_tasks, run, engineVars, miscVars, zoomVars,
                 aiVars, gcVars>>

\* PATCH /guides/{guide_id}/steps/{step_id}
UpdateGuideStep ==
  /\ requests < MaxRequests
  /\ \E step_id \in 1..MaxGuideSteps, step_update \in StepUpdates :
       StepsRequest(update_guide_step(guide_steps, step_id, step_update))

\* PATCH /steps/{step_id}/text
UpdateStepText ==
  /\ requests < MaxRequests
  /\ \E step_id \in 1..MaxGuideSteps, body \in BodyTexts :
       StepsRequest(update_step_text(guide_steps, step_id, body))

\* POST /steps/merge
MergeSteps ==
  /\ requests < MaxRequests
  /\ \E step_ids \in SUBSET (1..MaxGuideSteps), merged_text \in BodyTexts :
       StepsRequest(merge_steps(guide_steps, step_ids, merged_text))

\* POST /steps/reorder
ReorderSteps ==
  /\ requests < MaxRequests
  /\ \E new_order \in ReorderBodies :
       StepsRequest(reorder_steps(guide_steps, new_order))

\* DELETE /steps/{step_id}
DeleteStep ==
  /\ requests < MaxRequests
  /\ \E step_id \in 1..MaxGuideSteps :
       StepsRequest(delete_step(guide_steps, step_id))

\* POST /steps
CreateStep ==
  /\ requests < MaxRequests
  /\ \E step_number \in 0..(MaxGuideSteps + 1) :
       StepsRequest(create_step(guide_steps, step_number))

\* POST /processing/{guide_id}/process
StartProcessing ==
  /\ requests < MaxRequests
  /\ requests' = requests + 1
  /\ bg_tasks' = Append(bg_tasks, {})
  /\ http' = "200"
  /\ UNCHANGED <<guide_status, error_message, guide_steps, run, text_changed,
                 engineVars, miscVars, zoomVars, aiVars, gcVars>>

\* POST /processing/{guide_id}/magic-edit
MagicEdit ==
  /\ requests < MaxRequests
  /\ requests' = requests + 1
  /\ \E step_ids \in SUBSET (1..MaxGuideSteps) :
       /\ http' = magic_edit(guide_steps, step_ids)
       /\ bg_tasks' = IF magic_edit(guide_steps, step_ids) = "200"
                        THEN Append(bg_tasks, step_ids)
                        ELSE bg_tasks
  /\ UNCHANGED <<guide_status, error_message, guide_steps, run, text_changed,
                 engineVars, miscVars, zoomVars, aiVars, gcVars>>

\* the next scheduled process_guide_background task runs
ProcessGuideBackground ==
  /\ bg_tasks # <<>>
  /\ \E tts_ok \in BOOLEAN :
       LET done == process_guide_background(guide_status, error_message, guide_steps,
                                            Head(bg_tasks), tts_ok)
       IN  /\ guide_status' = done.status
           /\ error_message' = done.error_message
           /\ run' = [kind |-> IF Head(bg_tasks) = {} THEN "full" ELSE "magic",
                      regenerate_steps |-> Head(bg_tasks),
                      raised |-> done.raised, entered |-> done.entered,
                      rendered |-> done.rendered, concat |-> done.concat]
  /\ bg_tasks' = Tail(bg_tasks)
  /\ UNCHANGED <<guide_steps, text_changed, requests, http, engineVars, miscVars, zoomVars,
                 aiVars, gcVars>>

NextGuide ==
  \/ UpdateGuideStep
  \/ UpdateStepText
  \/ MergeSteps
  \/ ReorderSteps
  \/ DeleteStep
  \/ CreateStep
  \/ StartProcessing
  \/ MagicEdit
  \/ ProcessGuideBackground

SpecGuide == InitGuide /\ [][NextGuide]_vars

\* ---- generate_shorts (app/api/shorts.py): one request on one guide
\* how shorts_generator.generate_from_steps and the upload can end
ShortsOutcomes == {"success", "upload_raises", "not_success", "generator_raises"}

\* generate_shorts from the generator call on: COMPLETED after a successful
\* generation and upload; READY is committed when result.success is false,
\* but the HTTPException raised next is caught by the handler's own
\* "except Exception", which commits FAILED, as for every exception
AfterGenerate(outcome, error) ==
  CASE outcome = "success" ->
         [status |-> "completed", error_message |-> error, http |-> "200"]
    [] OTHER ->
         [status |-> "failed", error_message |-> SomeText("str(e)"), http |-> "500"]

\* the checks of generate_shorts before it sets GENERATING
ShortsRejected(status, screens) ==
  \/ status = "draft"
  \/ screens = <<>>
  \/ \E i \in 1..Len(screens) : ~screens[i]

InitShorts ==
  /\ sh_status \in GuideStatus \ {"generating"}
  /\ sh_error = NoText
  /\ sh_screens \in BoundedSeq(BOOLEAN, MaxGuideSteps)
  /\ sh_pc = "idle" /\ sh_result = "none" /\ sh_http = "none"
  /\ EngineIdle /\ ZoomIdle /\ AiIdle /\ GcIdle /\ GuideIdle /\ ContextIdle /\ HeartbeatIdle

shortsOthers ==
  <<engineVars, zoomVars, aiVars, gcVars, guideVars, contextVars, heartbeatVars>>

\* the request is refused with 400 before anything is written
RejectShorts ==
  /\ sh_pc = "idle"
  /\ ShortsRejected(sh_status, sh_screens)
  /\ sh_http' = "400"
  /\ sh_pc' = "done"
  /\ UNCHANGED <<sh_status, sh_error, sh_screens, sh_result, shortsOthers>>

\* guide.status = GuideStatus.GENERATING and its commit
BeginShorts ==
  /\ sh_pc = "idle"
  /\ ~ShortsRejected(sh_status, sh_screens)
  /\ sh_status' = "generating"
  /\ sh_pc' = "generating"
  /\ UNCHANGED <<sh_error, sh_screens, sh_result, sh_http, shortsOthers>>

\* the try block and its except clause, up to the end of the request
FinishShorts ==
  /\ sh_pc = "generating"
  /\ \E outcome \in ShortsOutcomes :
       /\ sh_result' = outcome
       /\ sh_status' = AfterGenerate(outcome, sh_error).status
       /\ sh_error' = AfterGenerate(outcome, sh_error).error_message
       /\ sh_http' = AfterGenerate(outcome, sh_error).http
  /\ sh_pc' = "done"
  /\ UNCHANGED <<sh_screens, shortsOthers>>

NextShorts ==
  \/ RejectShorts
  \/ BeginShorts
  \/ FinishShorts

SpecShorts == InitShorts /\ [][NextShorts]_vars

\* ---- SmartAligner._analyze_action_context called on one text and type
InitContext ==
  /\ ctx_text \in ContextTexts
  /\ ctx_type \in ActionType
  /\ ctx_score = RZero
  /\ ctx_done = FALSE
  /\ EngineIdle /\ ZoomIdle /\ AiIdle /\ GcIdle /\ GuideIdle /\ HeartbeatIdle /\ ShortsIdle

AnalyzeContext ==
  /\ ~ctx_done
  /\ ctx_score' = _analyze_action_context(ctx_text, ctx_type)
  /\ ctx_done' = TRUE
  /\ UNCHANGED <<ctx_text, ctx_type, engineVars, zoomVars, aiVars, gcVars, guideVars,
                 heartbeatVars, shortsVars>>

NextContext == AnalyzeContext

SpecContext == InitContext /\ [][NextContext]_vars

\* ------------------------------------------------------------------------
\* Properties of SmartAligner.align (under SpecAlign)
\* ------------------------------------------------------------------------
AlignDone == align_runs > 0

StepSet == {result.steps[i] : i \in 1..Len(result.steps)}

\* C1: every AlignedStep returned by align has aligned_end > aligned_start
\* and silence_removed >= 0
C1_StepsWellFormed ==
  AlignDone =>
    \A s \in StepSet : s.aligned_end > s.aligned_start /\ s.silence_removed >= 0

\* a returned step whose voice end minus the removed silence was not after
\* its start, so that the floor decided aligned_end
C1_Witness ==
  /\ AlignDone
  /\ \E s \in StepSet :
       /\ s.silence_removed > 0
       /\ s.original_end - s.silence_removed <= s.original_start

\* C2: the matching is one-to-one by position: no two returned steps are
\* built from the same voice segment or from the same screen action
C2_OneToOne ==
  AlignDone =>
    \A i, j \in 1..Len(result.matched_positions) :
      i # j =>
        /\ result.matched_positions[i][1] # result.matched_positions[j][1]
        /\ result.matched_positions[i][2] # result.matched_positions[j][2]

SumSilenceRemoved ==
  SumSeq([i \in 1..Len(result.steps) |-> result.steps[i].silence_removed])

\* C5: when the silence_removed of the returned steps sums to 0, the
\* compression_ratio is 1.0
C5_NoSilenceNoCompression ==
  (AlignDone /\ SumSilenceRemoved = 0) => REq(result.compression_ratio, ROne)

WeightedQuality(coverage, avg_confidence, ratio) ==
  LET removal_score ==
        IF RLt(ratio, <<1, 10>>) THEN RMul(ratio, <<10, 1>>)
        ELSE IF RLt(<<3, 10>>, ratio)
             THEN RMax(RZero, RSub(ROne, RMul(RSub(ratio, <<3, 10>>), <<10, 7>>)))
        ELSE ROne
  IN  RAdd(RAdd(RMul(<<3, 10>>, coverage), RMul(<<4, 10>>, avg_confidence)),
           RMul(<<3, 10>>, removal_score))

ResultCoverage == RMin(ROne, Rat(Len(result.steps), Len(voice_segments)))

ResultAvgConfidence ==
  RMul(RSumSeq([i \in 1..Len(result.steps) |-> result.steps[i].confidence]),
       <<1, Len(result.steps)>>)

ResultOriginalDuration ==
  SumSeq([i \in 1..Len(result.steps) |->
            result.steps[i].original_end - result.steps[i].original_start])

InUnitInterval(q) == RLe(RZero, q) /\ RLe(q, ROne)

\* C17 as stated: alignment_quality lies in [0, 1] and is the weighted sum
\* with ratio = total removed time / total original step duration (stated
\* for the results whose total original step duration is positive)
C17_QualityFormula ==
  (AlignDone /\ result.steps # <<>> /\ ResultOriginalDuration > 0) =>
    /\ InUnitInterval(result.alignment_quality)
    /\ result.alignment_quality =
         WeightedQuality(ResultCoverage, ResultAvgConfidence,
                         Rat(SumSilenceRemoved, ResultOriginalDuration))

\* C17 amended: alignment_quality lies in [0, 1]; it is 0 when no step was
\* matched, and otherwise the weighted sum with ratio = total removed time /
\* max(0.1 s, total original step duration)
C17_QualityFormulaFloored ==
  AlignDone =>
    /\ InUnitInterval(result.alignment_quality)
    /\ result.steps = <<>> => result.alignment_quality = RZero
    /\ result.steps # <<>> =>
         result.alignment_quality =
           WeightedQuality(ResultCoverage, ResultAvgConfidence,
                           Rat(SumSilenceRemoved,
                               Max(MIN_TOTAL_DURATION, ResultOriginalDuration)))

\* a result whose steps last less than 0.1 s in total while more silence than
\* that was removed, so that the ratio is above 1
C17_Witness ==
  /\ AlignDone
  /\ result.steps # <<>>
  /\ ResultOriginalDuration < MIN_TOTAL_DURATION
  /\ SumSilenceRemoved > MIN_TOTAL_DURATION

C29_TotalIsSumOfSteps ==
  AlignDone => result.total_silence_removed = SumSilenceRemoved

\* the segments the matcher works on, and the matcher's pairs as positions
CleanedSegments == _clean_pauses(voice_segments)

StepVoice(i) == result.matched_positions[i][1]

StepAction(i) == result.matched_positions[i][2]

\* the voice positions the steps before step i were built from
ClaimedBeforeStep(i) == {StepVoice(j) : j \in 1..(i - 1)}

\* the voice positions of the steps built for actions before position a
ClaimedBeforeAction(a) ==
  {StepVoice(j) : j \in {k \in 1..Len(result.steps) : StepAction(k) < a}}

\* score = context_score * (1 - 0.3 * min(1, gap / max_gap_threshold))
StatedScore(voice, action) ==
  RMul(ContextTable[voice.text, action.action_type],
       RSub(ROne, RMul(<<3, 10>>,
                       RMin(ROne, Rat(Gap(voice, action.timestamp), max_gap_threshold)))))

\* C22: the steps follow the input order of the actions; each step's voice
\* segment was claimed by no earlier step, lies within max_gap_threshold of
\* the step's action and has the highest stated score among the unclaimed
\* segments within the threshold; the step's confidence is that score; and
\* the pairs made for a prefix of the actions are kept when more follow
C22_GreedySelection ==
  AlignDone =>
    /\ \A i \in 1..Len(result.steps) :
         LET v == CleanedSegments[StepVoice(i)]
             act == screen_actions[StepAction(i)]
         IN  /\ \A j \in 1..(i - 1) : StepAction(j) < StepAction(i)
             /\ StepVoice(i) \notin ClaimedBeforeStep(i)
             /\ Gap(v, act.timestamp) <= max_gap_threshold
             /\ REq(result.steps[i].confidence, StatedScore(v, act))
             /\ \A w \in (1..Len(voice_segments)) \ ClaimedBeforeStep(i) :
                  Gap(CleanedSegments[w], act.timestamp) <= max_gap_threshold
                    => RLe(StatedScore(CleanedSegments[w], act), StatedScore(v, act))
    /\ \A k \in 0..Len(screen_actions) :
         LET part == _match_actions_to_speech(CleanedSegments, SubSeq(screen_actions, 1, k))
             whole == _match_actions_to_speech(CleanedSegments, screen_actions)
         IN  Len(part) <= Len(whole) /\ part = SubSeq(whole, 1, Len(part))

\* C25: every screen action for which a voice segment not claimed for an
\* earlier action lies within max_gap_threshold yields a step
C25_LowScoreNeverRejects ==
  AlignDone /\ voice_segments # <<>> =>
    \A a \in 1..Len(screen_actions) :
      (\E w \in (1..Len(voice_segments)) \ ClaimedBeforeAction(a) :
         Gap(CleanedSegments[w], screen_actions[a].timestamp) <= max_gap_threshold)
        => \E i \in 1..Len(result.steps) : StepAction(i) = a

\* ------------------------------------------------------------------------
\* Properties of SmartAligner._analyze_action_context (under SpecContext)
\* ------------------------------------------------------------------------
\* the lowered text holds a keyword pattern of the action type
KeywordMatch ==
  /\ ctx_type \in DOMAIN ACTION_PATTERNS
  /\ \E k \in 1..Len(ACTION_PATTERNS[ctx_type]) :
       Search(ACTION_PATTERNS[ctx_type][k], Lower(ctx_text))

\* the score is the maximum similarity ratio of the lowered text against the
\* canonical phrases of the action type
ScoreIsMaxSimilarity ==
  LET ph == typical_phrases[ctx_type]
  IN  /\ \E k \in 1..Len(ph) :
           REq(ctx_score, SequenceMatcherRatio(Lower(ctx_text), ph[k]))
      /\ \A k \in 1..Len(ph) :
           RLe(SequenceMatcherRatio(Lower(ctx_text), ph[k]), ctx_score)

\* C24 as stated: the score is 1.0 on a keyword match, otherwise the maximum
\* similarity against the canonical phrases of the type, and 0.3 for every
\* type without canonical phrases
C24_ContextScoreAsStated ==
  ctx_done =>
    /\ KeywordMatch => REq(ctx_score, ROne)
    /\ (~KeywordMatch /\ ctx_type \in {"click", "scroll", "type"}) => ScoreIsMaxSimilarity
    /\ (~KeywordMatch /\ ctx_type \notin {"click", "scroll", "type"})
         => REq(ctx_score, <<3, 10>>)

\* C24: the score is 0.5 for a type without keyword patterns (double_click,
\* right_click, drag, key_press); otherwise 1.0 on a keyword match, else the
\* maximum similarity against the canonical phrases (click, scroll, type),
\* and 0.3 for hover
C24_ContextScore ==
  ctx_done =>
    /\ ctx_type \in {"double_click", "right_click", "drag", "key_press"}
         => REq(ctx_score, <<1, 2>>)
    /\ KeywordMatch => REq(ctx_score, ROne)
    /\ (~KeywordMatch /\ ctx_type \in {"click", "scroll", "type"}) => ScoreIsMaxSimilarity
    /\ (~KeywordMatch /\ ctx_type = "hover") => REq(ctx_score, <<3, 10>>)

\* a drag scored against a text that holds keywords of other types only
C24_Witness ==
  ctx_done /\ ctx_type = "drag" /\ ctx_text = TextSave /\ REq(ctx_score, <<1, 2>>)

\* ------------------------------------------------------------------------
\* Properties of StepDetector.detect_steps (under SpecDetect)
\* ------------------------------------------------------------------------
\* the positions of the segments that qualify for a click at time ts
Qualifying(ts) ==
  {j \in 1..Len(speech_segments) :
     /\ speech_segments[j].end <= ts
     /\ speech_segments[j].end >= ts - MAX_SPEECH_SECONDS}

\* C3: a candidate's speech, when present, ends at or before the click and
\* at most MAX_SPEECH_SECONDS before it
C3_SpeechWithinLookback ==
  \A i \in 1..Len(steps) :
    steps[i].speech # None =>
      /\ steps[i].click.timestamp - steps[i].speech.end >= 0
      /\ steps[i].click.timestamp - steps[i].speech.end <= MAX_SPEECH_SECONDS

\* a candidate paired with a speech that ends exactly MAX_SPEECH_SECONDS
\* before its click, while an earlier-ending segment was passed over
C3_Witness ==
  \E i \in 1..Len(steps) :
    /\ steps[i].speech # None
    /\ steps[i].click.timestamp - steps[i].speech.end = MAX_SPEECH_SECONDS
    /\ \E j \in 1..Len(speech_segments) :
         speech_segments[j].end < steps[i].click.timestamp - MAX_SPEECH_SECONDS

C16_FilterKeepsNearClicks ==
  filter_done =>
    filtered =
      SelectSeq(clicks,
                LAMBDA c : \E j \in Qualifying(c.timestamp) :
                             c.timestamp - speech_segments[j].end <= max_gap_seconds)

\* the filter ran with the default gap on two clicks: it kept the one whose
\* nearest qualifying speech ends 2.0 s before it and dropped the one whose
\* nearest qualifying speech ends 4.0 s before it
C16_Witness ==
  /\ filter_done
  /\ max_gap_seconds = DEFAULT_MAX_GAP_SECONDS
  /\ Len(clicks) = 2
  /\ Len(filtered) = 1
  /\ \E i \in 1..2 :
       /\ clicks[i] \notin {filtered[k] : k \in 1..Len(filtered)}
       /\ Qualifying(clicks[i].timestamp) # {}
       /\ \A j \in Qualifying(clicks[i].timestamp) :
            clicks[i].timestamp - speech_segments[j].end >= 400
       /\ \E j \in Qualifying(clicks[i].timestamp) :
            clicks[i].timestamp - speech_segments[j].end = 400

\* ------------------------------------------------------------------------
\* Properties of VideoProcessor (under SpecVideo)
\* ------------------------------------------------------------------------
InAtempoRange(f) == RLe(ATEMPO_MIN, f) /\ RLe(f, ATEMPO_MAX)

\* C7: when a whole-clip stretch has succeeded, the stage factors it applied
\* multiply to the requested ratio
C7_StagesMultiplyToRatio ==
  (vp_op = "stretch" /\ vp_pc = "done" /\ vp_result = "True") =>
    REq(RProdSeq(stages), ts_requested)

\* C8: every factor handed to atempo lies in [0.5, 2.0]: the per-segment
\* speed factor and every stage factor of the whole-clip cascade
C8_FactorsInRange ==
  /\ \A k \in 1..Len(stages) : InAtempoRange(stages[k])
  /\ \A k \in 1..Len(rendered) : InAtempoRange(rendered[k].speed_factor)

\* a whole-clip stretch asked for a ratio below 0.5 has cascaded two stages
C8_Witness ==
  /\ vp_op = "stretch"
  /\ vp_pc = "done"
  /\ RLt(ts_requested, ATEMPO_MIN)
  /\ Len(stages) >= 2

\* the transcoding call for segment call k exited non-zero or timed out
SegmentFailed(k) == rendered[k].outcome.rc # "zero"

\* C9: a failed segment render ends generate_video_with_zoom with False: it
\* is the last segment rendered, no concatenation runs and output_video is
\* not written
C9_FailedSegmentIsFatal ==
  \A k \in 1..Len(rendered) :
    SegmentFailed(k) =>
      /\ k = Len(rendered)
      /\ Len(segment_files) = k
      /\ vp_pc = "done"
      /\ vp_result = "False"
      /\ concat_log = <<>>
      /\ ~output_touched

\* the first of two segments exited non-zero with its file present, and the
\* call has returned
C9_Witness ==
  /\ vp_pc = "done"
  /\ Len(vp_steps) = 2
  /\ Len(rendered) = 1
  /\ rendered[1].outcome = [rc |-> "nonzero", file |-> TRUE]

\* the stream-copy concatenation failed: non-zero exit, timeout or no output
StreamCopyFailed ==
  /\ concat_log # <<>>
  /\ ~(concat_log[1].outcome.rc = "zero" /\ concat_log[1].outcome.file)

ReencodeAttempts ==
  Cardinality({k \in 1..Len(concat_log) : concat_log[k].kind = "reencode"})

\* C10: when the stream-copy concatenation has failed, the call returns only
\* after the re-encode concatenation was attempted exactly once
C10_FailureOnlyAfterReencode ==
  (vp_pc = "done" /\ StreamCopyFailed) => ReencodeAttempts = 1

\* the step numbers of the segments transcoded and of the files listed in
\* concat.txt, in the order of the calls and of the list
RenderedNumbers == [i \in DOMAIN rendered |-> step_numbers[rendered[i].segment]]
ListedNumbers == [i \in DOMAIN concat_list |-> step_numbers[concat_list[i]]]
Ascending(n) == [i \in 1..n |-> i]

\* C12: when apply_alignment or render_video_with_steps has been given steps
\* and has finished without a failed command, the segments were transcoded and
\* listed in concat.txt in ascending step_number order
C12_AscendingStepOrder ==
  (/\ vp_pc = "done"
   /\ caller \in {"apply_alignment", "render_video_with_steps"}
   /\ step_numbers # <<>>
   /\ vp_result \notin {"False", "raised"}) =>
    /\ RenderedNumbers = Ascending(Len(step_numbers))
    /\ ListedNumbers = Ascending(Len(step_numbers))

\* the speed factor the running apply_time_stretch call computes
RemainingFactor == RDiv(ts_duration, ts_target)

\* C21: in a whole-clip stretch every 2.0 stage halves the remaining factor,
\* so the stages applied so far times the remaining factor is the requested
\* factor; and a requested factor of 3.0 takes at most two stages, which are
\* 2.0 then 1.5 once the call has returned True
C21_CascadeHalvesFactor ==
  /\ (vp_op = "stretch" /\ vp_pc = "stretch" /\ RLt(RZero, ts_duration)) =>
       REq(RMul(RProdSeq(stages), RemainingFactor), ts_requested)
  /\ (vp_op = "stretch" /\ REq(ts_requested, <<3, 1>>)) =>
       /\ Len(stages) <= 2
       /\ (vp_pc = "done" /\ vp_result = "True") => stages = << <<2, 1>>, <<3, 2>> >>

\* C26: generate_video_with_zoom returns True only if its last transcoding
\* call exited with status 0 and output_video exists; on the no-steps path
\* that call is the one of _copy_video
C26_SuccessNeedsExitZeroAndFile ==
  (vp_op = "generate" /\ vp_pc = "done" /\ vp_result = "True") =>
    /\ output_exists
    /\ copy_outcome # NoOutcome => copy_outcome.rc = "zero"
    /\ concat_log # <<>> => concat_log[Len(concat_log)].outcome.rc = "zero"

\* ------------------------------------------------------------------------
\* Properties of ZoomRegion (under SpecZoom)
\* ------------------------------------------------------------------------
\* c is the floor of n / 2
IsHalfOf(c, n) == 2 * c <= n /\ n < 2 * c + 2

\* C20: a constructed ZoomRegion has center_x = x + width // 2 and
\* center_y = y + height // 2 whatever centers were passed in, and a
\* target_width / target_height of 0 becomes width / height
C20_DerivedCenter ==
  zr_done =>
    /\ Len(zoom_region.center_x) = 1
    /\ Len(zoom_region.center_y) = 1
    /\ IsHalfOf(zoom_region.center_x[1] - zr_args.x, zr_args.width)
    /\ IsHalfOf(zoom_region.center_y[1] - zr_args.y, zr_args.height)
    /\ zr_args.target_width = 0 => zoom_region.target_width = zr_args.width
    /\ zr_args.target_height = 0 => zoom_region.target_height = zr_args.height
    /\ zr_args.target_width # 0 => zoom_region.target_width = zr_args.target_width
    /\ zr_args.target_height # 0 => zoom_region.target_height = zr_args.target_height

\* a region of odd width built with centers passed in that differ from the
\* derived ones and with no target size
C20_Witness ==
  /\ zr_done
  /\ zr_args.width = 3
  /\ zr_args.center_x # NoInt /\ zr_args.center_x # zoom_region.center_x
  /\ zr_args.center_y # NoInt /\ zr_args.center_y # zoom_region.center_y
  /\ zr_args.target_width = 0 /\ zr_args.target_height = 0

\* ------------------------------------------------------------------------
\* Properties of run_ai_subprocess (under SpecAI)
\* ------------------------------------------------------------------------
\* C18: whenever run_ai_subprocess has returned or raised, input_<task_id>.json
\* and output_<task_id>.json are gone, whether the result was read, the output
\* was missing, the subprocess timed out or another error occurred
C18_TempFilesRemoved ==
  ai_pc = "done" => ~input_file /\ ~output_file

\* ------------------------------------------------------------------------
\* Properties of HeartbeatManager (under SpecHeartbeat)
\* ------------------------------------------------------------------------
\* C27: once unregister_job(job_id) has returned, the heartbeat key of job_id
\* is absent, whatever the heartbeat thread was doing
C27_KeyAbsentAfterUnregister ==
  \A job_id \in unregistered : heartbeat_keys[job_id] = "absent"

\* ------------------------------------------------------------------------
\* Properties of check_stale_tasks (under SpecGC)
\* ------------------------------------------------------------------------
\* C19: after a check_stale_tasks pass whose Redis calls succeeded, a job whose
\* liveness marker had not been refreshed within the stale threshold has had
\* its pending message claimed, and a job is claimed only by a pass that found
\* its marker older than the threshold
C19_StaleJobReclaimed ==
  /\ (/\ gc_passes > 0
      /\ gc_stats.outcome = "returned"
      /\ gc_stats.stale_count = gc_stats.reclaimed_count
      /\ pass_age > STALE_TASK_THRESHOLD) => msg_owner = "reclaimed"
  /\ msg_owner = "reclaimed" => reclaim_age > STALE_TASK_THRESHOLD

\* ------------------------------------------------------------------------
\* Properties of the guide requests and runs (under SpecGuide)
\* ------------------------------------------------------------------------
\* the step ids of the rows in ascending step_number order
ByStepNumber(rows) ==
  CHOOSE q \in [1..Cardinality(DOMAIN rows) -> DOMAIN rows] :
    \A i, j \in DOMAIN q : i < j => rows[q[i]].step_number < rows[q[j]].step_number

\* the flagged ones among them, in the same order
FlaggedByStepNumber(rows) ==
  SelectSeq(ByStepNumber(rows), LAMBDA s : rows[s].needs_regenerate = "true")

\* C11: a finished magic-edit run that did not produce the concatenated video
\* has left the guide FAILED with an error message, not COMPLETED
C11_RenderFailureMarksFailed ==
  (run.kind = "magic" /\ run.concat = <<>>) =>
    /\ guide_status = "failed"
    /\ error_message # NoText

\* C13: a finished magic-edit run has re-rendered the segments of exactly the
\* steps flagged needs_regenerate and has concatenated the full list of the
\* guide's steps in step_number order
C13_MagicEditRendersFlaggedOnly ==
  run.kind = "magic" =>
    /\ run.rendered = FlaggedByStepNumber(guide_steps)
    /\ run.concat = ByStepNumber(guide_steps)

\* C14: every step whose edited_text was changed by a request, and whose audio
\* has not been regenerated since, has needs_regenerate = true
C14_EditSetsNeedsRegenerate ==
  \A s \in text_changed : guide_steps[s].needs_regenerate = "true"

\* C15: GuideStatus has a PROCESSING member, a processing run sets it before
\* doing its work, and a finished run has left the guide COMPLETED or FAILED
C15_RunEndsCompletedOrFailed ==
  run.kind # "none" =>
    /\ {"draft", "processing", "completed", "failed"} \subseteq GuideStatus
    /\ run.entered
    /\ guide_status \in {"completed", "failed"}

\* C28: no commit of a step request violates uq_guide_step_number, and the
\* step numbers of the guide's steps are pairwise distinct
C28_StepNumbersDistinct ==
  UniqueNumbers(guide_steps) /\ http # "IntegrityError"

\* ------------------------------------------------------------------------
\* Properties of generate_shorts (under SpecShorts)
\* ------------------------------------------------------------------------
\* C30: a finished request has not left the guide GENERATING, and
\* when the generator returned a result with success false the guide is READY
C30_FailureLeavesReady ==
  sh_pc = "done" =>
    /\ sh_status # "generating"
    /\ sh_result = "not_success" => sh_status = "ready"

====
